---------------------------- MODULE Spec2Model ----------------------------
(***************************************************************************)
(* Model of the ZULIM spatial analysis engine                              *)
(* (src/src/utils/spatialAnalysis.ts) and of the undo history of the      *)
(* plotter pages (src/src/pages/ManualPlotter.tsx).                        *)
(*                                                                         *)
(* Numbers.  Coordinates and lengths are integers counted in units of      *)
(* 1/UnitsPerE4 of 0.0001 degree, so that the three length constants of    *)
(* the code (the 0.0001 coincidence radius, the 4-decimal residual key and *)
(* the 0.05 density radius) are all whole numbers of units.  Distances are *)
(* compared through their squares (sqrt is strictly increasing on the      *)
(* non-negative numbers).  Target values, weights and grid values are      *)
(* exact rationals <<n, d>> with d > 0 in lowest terms: the model computes *)
(* what the code computes, without the rounding of IEEE doubles, save in   *)
(* the ray-casting test of isPointInPolygon, whose outcome on an edge      *)
(* depends on that rounding: there the quotient, product and sum are       *)
(* rounded to MantissaBits bits, to nearest and ties to even.  The locals  *)
(* of generateGrid run statement by statement are extended numbers, with   *)
(* Infinity, -Infinity and NaN.                                            *)
(***************************************************************************)
EXTENDS Integers, Sequences, FiniteSets, TLC

VARIABLES
    pc,               \* the operation applied by the last step ("init" at start)
    points,           \* DataPoint[]: sequence of [lat, lng, properties]
    config,           \* the parameters of the calls (AnalysisConfig fields)
    grid,             \* the grid handed to the stage (lattice or GridCell[])
    result,           \* what the operation returned
    locals,           \* the local variables of a function that is run step by step
    calls,            \* the calls runAnalysis has made so far, in order
    plotter           \* the state of a plotter page (its useState values)

vars == <<pc, points, config, grid, result, locals, calls, plotter>>

Unset == <<>>

\* no function is being run step by step
NoFrame == locals = Unset /\ calls = <<>>

\* the grid a stage works on: the one given at the start, or the one the
\* previous stage returned
StageInput == IF pc = "init" THEN grid ELSE result

(***************************************************************************)
(* Integer and rational arithmetic                                         *)
(***************************************************************************)
Abs(x) == IF x < 0 THEN -x ELSE x

RECURSIVE GCD(_, _)
GCD(a, b) == IF b = 0 THEN Abs(a) ELSE GCD(b, a % b)

\* the rational n/d (d # 0) in lowest terms with a positive denominator
Rat(n, d) ==
    LET g == GCD(Abs(n), Abs(d))
        s == IF d < 0 THEN -1 ELSE 1
    IN  <<(s * n) \div g, (s * d) \div g>>

RInt(n) == <<n, 1>>
RAdd(a, b) == LET g == GCD(a[2], b[2])
              IN  Rat(a[1] * (b[2] \div g) + b[1] * (a[2] \div g), (a[2] \div g) * b[2])
RNeg(a) == <<-a[1], a[2]>>
RSub(a, b) == RAdd(a, RNeg(b))
RMul(a, b) == LET x == Rat(a[1], b[2])
                  y == Rat(b[1], a[2])
              IN  <<x[1] * y[1], x[2] * y[2]>>
RDiv(a, b) == RMul(a, Rat(b[2], b[1]))
RLt(a, b) == a[1] * b[2] < b[1] * a[2]
RLe(a, b) == a[1] * b[2] <= b[1] * a[2]
RAbs(a) == <<Abs(a[1]), a[2]>>

RECURSIVE IPow(_, _)
IPow(b, e) == IF e = 0 THEN 1 ELSE b * IPow(b, e - 1)

SetMin(S) == CHOOSE x \in S : \A y \in S : x <= y
SetMax(S) == CHOOSE x \in S : \A y \in S : y <= x
RSetMin(S) == CHOOSE x \in S : \A y \in S : RLe(x, y)
RSetMax(S) == CHOOSE x \in S : \A y \in S : RLe(y, x)

Range(s) == {s[i] : i \in DOMAIN s}
SeqsOf(S, lo, hi) == UNION {[1..n -> S] : n \in lo..hi}

(***************************************************************************)
(* Units and data                                                          *)
(***************************************************************************)
UnitsPerE4 == 3                 \* one unit is 1/3 of 0.0001 degree

targetVar == "t"

DataPoint(la, ln, v) == [lat |-> la, lng |-> ln, properties |-> [t |-> v]]
Target(p) == p.properties[targetVar]

\* squared Euclidean distance between two things with lat and lng
Dist2(a, b) == (a.lat - b.lat) * (a.lat - b.lat) + (a.lng - b.lng) * (a.lng - b.lng)

\* {...cell, f: v}
With(cell, f, v) == [k \in (DOMAIN cell) \cup {f} |-> IF k = f THEN v ELSE cell[k]]

(***************************************************************************)
(* generateGrid                                                            *)
(***************************************************************************)
PadLow_half(lo, resolution) == lo - resolution
PadLow(lo, resolution) == lo - resolution * 2
PadHigh(hi, resolution) == hi + resolution * 2

RECURSIVE GridRow(_, _, _, _)
GridRow(lat, lng, maxLng, resolution) ==
    IF lng <= maxLng
    THEN <<[lat |-> lat, lng |-> lng]>> \o GridRow(lat, lng + resolution, maxLng, resolution)
    ELSE <<>>

RECURSIVE GridRows(_, _, _, _, _)
GridRows(lat, maxLat, minLng, maxLng, resolution) ==
    IF lat <= maxLat
    THEN GridRow(lat, minLng, maxLng, resolution)
         \o GridRows(lat + resolution, maxLat, minLng, maxLng, resolution)
    ELSE <<>>

\* for a resolution above zero; without points Math.min() is Infinity and
\* Math.max() is -Infinity, and the first test of the outer loop fails
generateGrid(pts, resolution) ==
    LET lats == {pts[i].lat : i \in DOMAIN pts}
        lngs == {pts[i].lng : i \in DOMAIN pts}
        minLat == PadLow(SetMin(lats), resolution)
        maxLat == PadHigh(SetMax(lats), resolution)
        minLng == PadLow(SetMin(lngs), resolution)
        maxLng == PadHigh(SetMax(lngs), resolution)
    IN  IF pts = <<>> THEN <<>>
        ELSE GridRows(minLat, maxLat, minLng, maxLng, resolution)

(***************************************************************************)
(* Specification SpecGrid: generateGrid on bounded inputs                  *)
(***************************************************************************)
MaxGridCoord == 3
MaxGridPoints == 2
MaxResolution == 3

GridInit ==
    /\ pc = "init"
    /\ points \in SeqsOf({DataPoint(la, ln, 0) : la \in 0..MaxGridCoord, ln \in 0..MaxGridCoord},
                         1, MaxGridPoints)
    /\ \E r \in 1..MaxResolution : config = [gridResolution |-> r]
    /\ grid = Unset
    /\ result = Unset
    /\ NoFrame
    /\ plotter = Unset

GenerateGrid ==
    /\ pc = "init"
    /\ pc' = "generateGrid"
    /\ result' = generateGrid(points, config.gridResolution)
    /\ UNCHANGED <<points, config, grid, locals, calls, plotter>>

GridNext == GenerateGrid

SpecGrid == GridInit /\ [][GridNext]_vars

\* C9: for resolution r > 0 the grid is the full lattice of the bounding box
\* padded by exactly 2r on each side: latitudes minLat-2r, minLat-r, ... up to
\* at most maxLat+2r, longitudes likewise, emitted row by row (so every
\* combination appears exactly once, the first cell is the padded corner and
\* every cell lies inside the padded box).
C9_GridLattice ==
    pc = "generateGrid" =>
        LET r == config.gridResolution
            loLat == SetMin({points[i].lat : i \in DOMAIN points})
            hiLat == SetMax({points[i].lat : i \in DOMAIN points})
            loLng == SetMin({points[i].lng : i \in DOMAIN points})
            hiLng == SetMax({points[i].lng : i \in DOMAIN points})
            nRows == ((hiLat - loLat) + 4 * r) \div r + 1
            nCols == ((hiLng - loLng) + 4 * r) \div r + 1
        IN  /\ Len(result) = nRows * nCols
            /\ result[1] = [lat |-> loLat - 2 * r, lng |-> loLng - 2 * r]
            /\ \A k \in 1..Len(result) :
                  /\ result[k].lat = loLat - 2 * r + ((k - 1) \div nCols) * r
                  /\ result[k].lng = loLng - 2 * r + ((k - 1) % nCols) * r
                  /\ result[k].lat >= loLat - 2 * r /\ result[k].lat <= hiLat + 2 * r
                  /\ result[k].lng >= loLng - 2 * r /\ result[k].lng <= hiLng + 2 * r
            /\ \A j, k \in 1..Len(result) : j # k => result[j] # result[k]

\* a grid with several rows and columns whose last row stops short of the
\* padded maximum (the span is not a multiple of the resolution)
C9_Witness ==
    /\ pc = "generateGrid"
    /\ Len(points) = 2
    /\ config.gridResolution = 2
    /\ points[1].lat = 0 /\ points[2].lat = 3
    /\ points[1].lng = 1 /\ points[2].lng = 0
    /\ Len(result) = 6 * 5

\* the latitudes and the longitudes of a list of points or cells
LatsOf(s) == {s[i].lat : i \in DOMAIN s}
LngsOf(s) == {s[i].lng : i \in DOMAIN s}

\* C21 as stated: points that share one latitude give a grid of exactly one
\* row, and points that share one longitude a grid of exactly one column.
C21_OneRowOrColumn ==
    pc = "generateGrid" =>
        /\ Cardinality(LatsOf(points)) = 1 => Cardinality(LatsOf(result)) = 1
        /\ Cardinality(LngsOf(points)) = 1 => Cardinality(LngsOf(result)) = 1

\* C21: points that share one latitude lat give a grid of the five rows
\* lat - 2r, lat - r, lat, lat + r, lat + 2r of the padded bound, and points
\* that share one longitude the five columns likewise.
C21_FiveRowsOrColumns ==
    pc = "generateGrid" =>
        LET r == config.gridResolution
            Padded(c) == {c + k * r : k \in -2..2}
        IN  /\ \A lat \in LatsOf(points) :
                  LatsOf(points) = {lat} => LatsOf(result) = Padded(lat)
            /\ \A lng \in LngsOf(points) :
                  LngsOf(points) = {lng} => LngsOf(result) = Padded(lng)

C21_Witness ==
    /\ pc = "generateGrid"
    /\ Len(points) = 2
    /\ Cardinality(LatsOf(points)) = 1
    /\ Cardinality(LngsOf(points)) = 2
    /\ Cardinality(LatsOf(result)) = 5
    /\ Cardinality(LngsOf(result)) > 5

(***************************************************************************)
(* generateGrid, statement by statement, for every kind of number.  A      *)
(* number is a record: a finite number n, Infinity, -Infinity or NaN.      *)
(***************************************************************************)
Finite(n) == [nan |-> FALSE, inf |-> 0, n |-> n]
Infinity == [nan |-> FALSE, inf |-> 1, n |-> 0]
MinusInfinity == [nan |-> FALSE, inf |-> -1, n |-> 0]
NaN == [nan |-> TRUE, inf |-> 0, n |-> 0]

\* a + b
XAdd(a, b) ==
    IF a.nan \/ b.nan THEN NaN
    ELSE IF a.inf # 0 /\ b.inf # 0 THEN (IF a.inf = b.inf THEN a ELSE NaN)
    ELSE IF a.inf # 0 THEN a
    ELSE IF b.inf # 0 THEN b
    ELSE Finite(a.n + b.n)

\* a - b
XSub(a, b) == XAdd(a, IF b.nan THEN NaN ELSE [b EXCEPT !.inf = -@, !.n = -@])

\* a * k for a finite k > 0
XTimes(a, k) == IF a.nan \/ a.inf # 0 THEN a ELSE Finite(a.n * k)

\* a <= b
XLe(a, b) ==
    /\ ~a.nan /\ ~b.nan
    /\ \/ a.inf < b.inf
       \/ a.inf = b.inf /\ (a.inf # 0 \/ a.n <= b.n)

\* Math.min(...xs) and Math.max(...xs) for finite xs: Infinity and -Infinity
\* when there is no argument
XMin(xs) == IF xs = {} THEN Infinity ELSE Finite(SetMin(xs))
XMax(xs) == IF xs = {} THEN MinusInfinity ELSE Finite(SetMax(xs))

\* the locals after the statements before the loops (lines 16-24) and the
\* initialisation of the outer loop
GridLocals(pts, resolution) ==
    LET lats == {pts[i].lat : i \in DOMAIN pts}
        lngs == {pts[i].lng : i \in DOMAIN pts}
        minLat == XSub(XMin(lats), XTimes(resolution, 2))
    IN  [minLat |-> minLat,
         maxLat |-> XAdd(XMax(lats), XTimes(resolution, 2)),
         minLng |-> XSub(XMin(lngs), XTimes(resolution, 2)),
         maxLng |-> XAdd(XMax(lngs), XTimes(resolution, 2)),
         grid |-> <<>>,
         lat |-> minLat]

\* lat <= maxLat and lng <= maxLng
OuterTest(l) == XLe(l.lat, l.maxLat)
InnerTest(l) == XLe(l.lng, l.maxLng)

\* grid.push({ lat, lng }); lng += resolution
PushCell(l, resolution) ==
    [l EXCEPT !.grid = Append(@, [lat |-> l.lat, lng |-> l.lng]),
              !.lng = XAdd(@, resolution)]

(***************************************************************************)
(* Specification SpecGridLoop: one call of generateGrid, a step being a    *)
(* loop test with what follows it.  The grid is capped at MaxLoopCells     *)
(* cells and lat at MaxLoopLat in size: a call stopped there is one whose  *)
(* loop goes on.                                                           *)
(***************************************************************************)
MaxLoopPoints == 2
MaxLoopCells == 90
MaxLoopLat == 12
LoopCoords == {0, 4}
LoopResolutions ==
    {Finite(-1), Finite(0), Finite(1), Finite(2), Infinity, MinusInfinity, NaN}

GridLoopInit ==
    /\ pc = "init"
    /\ points \in SeqsOf({DataPoint(la, ln, 0) : la \in LoopCoords, ln \in LoopCoords},
                         0, MaxLoopPoints)
    /\ \E r \in LoopResolutions : config = [gridResolution |-> r]
    /\ grid = Unset
    /\ result = Unset
    /\ NoFrame
    /\ plotter = Unset

\* the call, up to the first test of the outer loop
GridCall ==
    /\ pc = "init"
    /\ pc' = "generateGrid.outer"
    /\ locals' = GridLocals(points, config.gridResolution)
    /\ UNCHANGED <<points, config, grid, result, calls, plotter>>

\* lat <= maxLat holds: lng = minLng
GridOuterEnter ==
    /\ pc = "generateGrid.outer"
    /\ OuterTest(locals)
    /\ pc' = "generateGrid.inner"
    /\ locals' = With(locals, "lng", locals.minLng)
    /\ UNCHANGED <<points, config, grid, result, calls, plotter>>

\* lat <= maxLat fails: return grid
GridReturn ==
    /\ pc = "generateGrid.outer"
    /\ ~OuterTest(locals)
    /\ pc' = "generateGrid"
    /\ result' = locals.grid
    /\ UNCHANGED <<points, config, grid, locals, calls, plotter>>

\* lng <= maxLng holds: the body of the inner loop
GridPush ==
    /\ pc = "generateGrid.inner"
    /\ InnerTest(locals)
    /\ Len(locals.grid) < MaxLoopCells
    /\ locals' = PushCell(locals, config.gridResolution)
    /\ UNCHANGED <<pc, points, config, grid, result, calls, plotter>>

\* lng <= maxLng fails: lat += resolution
GridInnerExit ==
    /\ pc = "generateGrid.inner"
    /\ ~InnerTest(locals)
    /\ Abs(locals.lat.n) < MaxLoopLat
    /\ pc' = "generateGrid.outer"
    /\ locals' = [k \in DOMAIN locals \ {"lng"} |->
                     IF k = "lat" THEN XAdd(locals.lat, config.gridResolution) ELSE locals[k]]
    /\ UNCHANGED <<points, config, grid, result, calls, plotter>>

GridLoopNext == GridCall \/ GridOuterEnter \/ GridReturn \/ GridPush \/ GridInnerExit

SpecGridLoop == GridLoopInit /\ [][GridLoopNext]_vars

\* the resolution is a finite number above zero
ValidResolution(r) == ~r.nan /\ r.inf = 0 /\ r.n > 0

\* for a valid resolution the loops return the grid of generateGrid above
LoopReturnsGrid ==
    (pc = "generateGrid" /\ ValidResolution(config.gridResolution)) =>
        result = [k \in DOMAIN generateGrid(points, config.gridResolution.n) |->
                     [lat |-> Finite(generateGrid(points, config.gridResolution.n)[k].lat),
                      lng |-> Finite(generateGrid(points, config.gridResolution.n)[k].lng)]]

\* C19: called with a resolution that is zero, negative or not finite,
\* generateGrid fails with InvalidConfig: it neither goes round its loops nor
\* returns a grid.
C19_InvalidResolutionRefused ==
    ~ValidResolution(config.gridResolution) =>
        pc \notin {"generateGrid.inner", "generateGrid"}

(***************************************************************************)
(* performIDW                                                              *)
(***************************************************************************)
Epsilon == UnitsPerE4           \* 0.0001 degree, the coincidence radius

\* dist < 0.0001
Coincident(d2) == d2 < Epsilon * Epsilon

\* 1 / Math.pow(dist, power), for the even powers the model draws
IdwWeight(d2, power) == Rat(1, IPow(d2, power \div 2))

\* one call of the forEach callback: acc = <<weightedSum, weightSum>>.  The
\* callback's return ends this call only; the loop goes on to the next point.
IdwVisit(acc, cell, point, power) ==
    LET d2 == Dist2(cell, point)
    IN  IF Coincident(d2)
        THEN <<RInt(Target(point)), RInt(1)>>
        ELSE LET weight == IdwWeight(d2, power)
             IN  <<RAdd(acc[1], RMul(weight, RInt(Target(point)))), RAdd(acc[2], weight)>>

RECURSIVE IdwForEach(_, _, _, _, _)
IdwForEach(acc, cell, pts, i, power) ==
    IF i > Len(pts) THEN acc
    ELSE IdwForEach(IdwVisit(acc, cell, pts[i], power), cell, pts, i + 1, power)

IdwValue(cell, pts, power) ==
    LET acc == IdwForEach(<<RInt(0), RInt(0)>>, cell, pts, 1, power)
    IN  IF RLt(RInt(0), acc[2]) THEN RDiv(acc[1], acc[2]) ELSE RInt(0)

performIDW(pts, g, power) ==
    [k \in DOMAIN g |-> [lat |-> g[k].lat, lng |-> g[k].lng, value |-> IdwValue(g[k], pts, power)]]

(***************************************************************************)
(* Specification SpecIDW: generateGrid, then performIDW on its lattice     *)
(***************************************************************************)
MaxIdwPoints == 3
IdwLats == {0, 2, 5}
IdwLngs == {0, 2}
IdwValues == {0, 1, 4}
IdwResolutions == {2, 3}
IdwPowers == {0, 2}

IdwInit ==
    /\ pc = "init"
    /\ points \in SeqsOf({DataPoint(la, ln, v) : la \in IdwLats, ln \in IdwLngs, v \in IdwValues},
                         1, MaxIdwPoints)
    /\ \E r \in IdwResolutions, pw \in IdwPowers : config = [gridResolution |-> r, idwPower |-> pw]
    /\ grid = Unset
    /\ result = Unset
    /\ NoFrame
    /\ plotter = Unset

PerformIDW ==
    /\ pc \in {"init", "generateGrid"}
    /\ StageInput # Unset
    /\ pc' = "performIDW"
    /\ \E g \in {StageInput} :
          /\ grid' = g
          /\ result' = performIDW(points, g, config.idwPower)
    /\ UNCHANGED <<points, config, locals, calls, plotter>>

IdwNext == GenerateGrid \/ PerformIDW

SpecIDW == IdwInit /\ [][IdwNext]_vars

\* the last sample, in input order, within the coincidence radius of the cell
LastCoincident(cell, pts) ==
    LET S == {i \in DOMAIN pts : Coincident(Dist2(cell, pts[i]))}
    IN  IF S = {} THEN 0 ELSE SetMax(S)

\* C1: IDW exactness: the cell computed at the exact coordinates of a sample p
\* has p's target value exactly, wherever p stands in the input order (when
\* several samples lie within the coincidence radius of the cell, p is the
\* one the tie-break names, the last of them).
C1_IdwExact ==
    pc = "performIDW" =>
        \A k \in DOMAIN result : \A i \in DOMAIN points :
            (result[k].lat = points[i].lat /\ result[k].lng = points[i].lng
             /\ i = LastCoincident(result[k], points))
            => result[k].value = RInt(Target(points[i]))

(***************************************************************************)
(* performRegression                                                       *)
(***************************************************************************)
\* Math.random() * 0.4 + 0.1
DrawnImportance(random) == RAdd(RMul(random, Rat(4, 10)), Rat(1, 10))

\* predictors.map(pred => ({ feature: pred, importance: ... })), draws[i]
\* being what the i-th call of Math.random() returns
DrawnImportances(predictors, draws) ==
    [i \in DOMAIN predictors |->
        [feature |-> predictors[i], importance |-> DrawnImportance(draws[i])]]

\* featureImportance.reduce((sum, f) => sum + f.importance, 0)
RECURSIVE TotalImportance(_)
TotalImportance(fi) ==
    IF fi = <<>> THEN RInt(0)
    ELSE RAdd(TotalImportance(SubSeq(fi, 1, Len(fi) - 1)), fi[Len(fi)].importance)

\* f.importance = f.importance / totalImportance
Normalized_skip(importance, totalImportance) == importance
Normalized(importance, totalImportance) == RDiv(importance, totalImportance)

\* forEach(f => f.importance = f.importance / totalImportance)
NormalizedImportances(fi, totalImportance) ==
    [i \in DOMAIN fi |-> [fi[i] EXCEPT !.importance = Normalized(@, totalImportance)]]

\* sort((a, b) => b.importance - a.importance): a stable sort, descending
RECURSIVE InsertImportance(_, _)
InsertImportance(sorted, f) ==
    IF sorted = <<>> THEN <<f>>
    ELSE IF RLe(f.importance, sorted[1].importance)
         THEN <<sorted[1]>> \o InsertImportance(Tail(sorted), f)
         ELSE <<f>> \o sorted

RECURSIVE SortImportances(_)
SortImportances(fi) ==
    IF fi = <<>> THEN <<>>
    ELSE InsertImportance(SortImportances(SubSeq(fi, 1, Len(fi) - 1)), fi[Len(fi)])

\* the featureImportance array when the grid is computed
FeatureImportances(predictors, draws) ==
    LET drawn == DrawnImportances(predictors, draws)
    IN  SortImportances(NormalizedImportances(drawn, TotalImportance(drawn)))

\* featureImportance.find(f => f.feature === pred)?.importance || 0.1
RECURSIVE FindImportance(_, _)
FindImportance(fi, pred) ==
    IF fi = <<>> THEN Rat(1, 10)
    ELSE IF fi[1].feature = pred
         THEN (IF fi[1].importance = RInt(0) THEN Rat(1, 10) ELSE fi[1].importance)
         ELSE FindImportance(Tail(fi), pred)

\* (point.properties[pred] as number || 0)
PropertyOrZero(point, pred) ==
    IF pred \in DOMAIN point.properties THEN point.properties[pred] ELSE 0

\* the inner forEach over the predictors: predictorWeight
RECURSIVE PredictorWeight(_, _, _)
PredictorWeight(point, predictors, fi) ==
    IF predictors = <<>> THEN RInt(0)
    ELSE RAdd(PredictorWeight(point, SubSeq(predictors, 1, Len(predictors) - 1), fi),
              RMul(FindImportance(fi, predictors[Len(predictors)]),
                   RInt(PropertyOrZero(point, predictors[Len(predictors)]))))

\* (1 / Math.pow(dist, config.idwPower)) * (1 + predictorWeight * 0.01)
RegressionWeight(d2, power, predictorWeight) ==
    RMul(IdwWeight(d2, power), RAdd(RInt(1), RMul(predictorWeight, Rat(1, 100))))

\* one call of the forEach callback over the points: acc = <<weightedSum,
\* weightSum>>; as in performIDW the return ends this call only
RegressionVisit(acc, cell, point, predictors, fi, power) ==
    LET d2 == Dist2(cell, point)
    IN  IF Coincident(d2)
        THEN <<RInt(Target(point)), RInt(1)>>
        ELSE LET weight == RegressionWeight(d2, power, PredictorWeight(point, predictors, fi))
             IN  <<RAdd(acc[1], RMul(weight, RInt(Target(point)))), RAdd(acc[2], weight)>>

RECURSIVE RegressionForEach(_, _, _, _, _, _, _)
RegressionForEach(acc, cell, pts, i, predictors, fi, power) ==
    IF i > Len(pts) THEN acc
    ELSE RegressionForEach(RegressionVisit(acc, cell, pts[i], predictors, fi, power),
                           cell, pts, i + 1, predictors, fi, power)

RegressionValue(cell, pts, predictors, fi, power) ==
    LET acc == RegressionForEach(<<RInt(0), RInt(0)>>, cell, pts, 1, predictors, fi, power)
    IN  IF RLt(RInt(0), acc[2]) THEN RDiv(acc[1], acc[2]) ELSE RInt(0)

RegressionReturn(pts, predictors, g, power, fi) ==
    [grid |-> [k \in DOMAIN g |->
                  [lat |-> g[k].lat, lng |-> g[k].lng,
                   value |-> RegressionValue(g[k], pts, predictors, fi, power)]],
     featureImportance |-> fi]

performRegression(pts, predictors, g, cfg, draws) ==
    RegressionReturn(pts, predictors, g, cfg.idwPower, FeatureImportances(predictors, draws))

(***************************************************************************)
(* Specification SpecRegression: performRegression on a given lattice,     *)
(* with the predictors held in locals and the values of Math.random()      *)
(* drawn from RandomDraws                                                  *)
(***************************************************************************)
MaxRegPoints == 2
MaxPredictors == 2
RegLats == {0, 3}
RegValues == {0, 2}
PredictorNames == {"a", "b"}
PredictorValues == {0, 5}
RandomDraws == {RInt(0), Rat(9, 10)}

\* a sample point that carries the predictor a beside the target
PredictorPoint(la, ln, v, a) == [lat |-> la, lng |-> ln, properties |-> [t |-> v, a |-> a]]

\* the cells the regression is computed at
RegLattice ==
    <<[lat |-> 0, lng |-> 0], [lat |-> 0, lng |-> 2], [lat |-> 2, lng |-> 0],
      [lat |-> 2, lng |-> 2]>>

RegressionInit ==
    /\ pc = "init"
    /\ points \in SeqsOf({PredictorPoint(la, 0, v, a) :
                              la \in RegLats, v \in RegValues, a \in PredictorValues},
                         1, MaxRegPoints)
    /\ config = [idwPower |-> 2]
    /\ grid = RegLattice
    /\ result = Unset
    /\ \E preds \in SeqsOf(PredictorNames, 0, MaxPredictors) : locals = [predictors |-> preds]
    /\ calls = <<>>
    /\ plotter = Unset

PerformRegression ==
    /\ pc = "init"
    /\ pc' = "performRegression"
    /\ \E draws \in [1..Len(locals.predictors) -> RandomDraws] :
          result' = performRegression(points, locals.predictors, grid, config, draws)
    /\ UNCHANGED <<points, config, grid, locals, calls, plotter>>

RegressionNext == PerformRegression

SpecRegression == RegressionInit /\ [][RegressionNext]_vars

\* C16: performRegression returns one FeatureImportance entry per predictor
\* (an entry for each position of the predictor list, with that predictor's
\* name somewhere in the list); whatever Math.random() returns, every
\* importance is positive, the importances of a non-empty predictor list sum
\* to 1, and the entries are in descending order of importance.
C16_ImportancesNormalized ==
    pc = "performRegression" =>
        LET fi == result.featureImportance
            preds == locals.predictors
        IN  /\ Len(fi) = Len(preds)
            /\ \A name \in PredictorNames :
                  Cardinality({i \in DOMAIN fi : fi[i].feature = name})
                  = Cardinality({i \in DOMAIN preds : preds[i] = name})
            /\ \A i \in DOMAIN fi : RLt(RInt(0), fi[i].importance)
            /\ preds # <<>> => TotalImportance(fi) = RInt(1)
            /\ \A i \in DOMAIN fi : i > 1 => RLe(fi[i].importance, fi[i - 1].importance)

\* two predictors with different draws, the larger drawn for the second, so
\* that the sort changes the order
C16_Witness ==
    /\ pc = "performRegression"
    /\ locals.predictors = <<"a", "b">>
    /\ result.featureImportance[1].feature = "b"
    /\ RLt(result.featureImportance[2].importance, result.featureImportance[1].importance)

(***************************************************************************)
(* classifyGrid                                                            *)
(***************************************************************************)
\* [...values].sort((a, b) => a - b): insertion of each value after the
\* values not greater than it
RECURSIVE InsertNum(_, _)
InsertNum(sorted, x) ==
    IF sorted = <<>> THEN <<x>>
    ELSE IF RLe(sorted[1], x)
         THEN <<sorted[1]>> \o InsertNum(Tail(sorted), x)
         ELSE <<x>> \o sorted

RECURSIVE SortNum(_)
SortNum(s) == IF s = <<>> THEN <<>> ELSE InsertNum(SortNum(SubSeq(s, 1, Len(s) - 1)), s[Len(s)])

\* breaks[i] for i = 0..numClasses is kept at index i + 1
EqualBreaks(values, numClasses) ==
    LET min == RSetMin(Range(values))
        max == RSetMax(Range(values))
        range == RSub(max, min)
    IN  [j \in 1..(numClasses + 1) |->
            RAdd(min, RDiv(RMul(range, RInt(j - 1)), RInt(numClasses)))]

QuantileBreaks(values, numClasses) ==
    LET sorted == SortNum(values)
    IN  [j \in 1..(numClasses + 1) |->
            LET idx == (Len(sorted) * (j - 1)) \div numClasses
            IN  sorted[SetMin({idx, Len(sorted) - 1}) + 1]]

JenksBreaks(values, numClasses) ==
    LET sorted == SortNum(values)
        step == Len(sorted) \div numClasses
    IN  [j \in 1..(numClasses + 1) |->
            LET idx == SetMin({(j - 1) * step, Len(sorted) - 1})
            IN  sorted[idx + 1]]

Breaks(values, numClasses, method) ==
    IF method = "equal" THEN EqualBreaks(values, numClasses)
    ELSE IF method = "quantile" THEN QuantileBreaks(values, numClasses)
    ELSE JenksBreaks(values, numClasses)

\* cell.value >= breaks[i] && cell.value < breaks[i + 1], with i from 0
InInterval_lower(value, breaks, i) == RLe(breaks[i + 1], value)
InInterval(value, breaks, i) == RLe(breaks[i + 1], value) /\ RLt(value, breaks[i + 2])

\* the for loop with its break: the first i with breaks[i] <= value < breaks[i+1]
RECURSIVE FirstInterval(_, _, _)
FirstInterval(value, breaks, i) ==
    IF ~(i < Len(breaks) - 1) THEN 0
    ELSE IF InInterval(value, breaks, i) THEN i
    ELSE FirstInterval(value, breaks, i + 1)

\* cell.value >= breaks[breaks.length - 1]
AtLastBreak_strict(value, breaks) == RLt(breaks[Len(breaks)], value)
AtLastBreak(value, breaks) == RLe(breaks[Len(breaks)], value)

TopClass_over(numClasses) == numClasses
TopClass(numClasses) == numClasses - 1

ClassOf(value, breaks, numClasses) ==
    LET classNum == FirstInterval(value, breaks, 0)
    IN  IF AtLastBreak(value, breaks) THEN TopClass(numClasses) ELSE classNum

classifyGrid(g, numClasses, method) ==
    LET values == [k \in DOMAIN g |-> g[k].value]
        breaks == Breaks(values, numClasses, method)
    IN  [k \in DOMAIN g |-> With(g[k], "class", ClassOf(g[k].value, breaks, numClasses))]

(***************************************************************************)
(* Specification SpecClassify: classifyGrid on bounded continuous grids    *)
(***************************************************************************)
MaxCells == 4
MaxCellValue == 3
MaxClasses == 4
Methods == {"equal", "quantile", "jenks"}

ClassifyInit ==
    /\ pc = "init"
    /\ points = Unset
    /\ \E n \in 1..MaxCells : \E vs \in [1..n -> 0..MaxCellValue] :
          grid = [k \in 1..n |-> [lat |-> 0, lng |-> k, value |-> RInt(vs[k])]]
    /\ \E nc \in 1..MaxClasses, m \in Methods :
          config = [numClasses |-> nc, classificationMethod |-> m]
    /\ result = Unset
    /\ NoFrame
    /\ plotter = Unset

ClassifyGrid ==
    /\ pc = "init"
    /\ pc' = "classifyGrid"
    /\ result' = classifyGrid(grid, config.numClasses, config.classificationMethod)
    /\ UNCHANGED <<points, config, grid, locals, calls, plotter>>

ClassifyNext == ClassifyGrid

SpecClassify == ClassifyInit /\ [][ClassifyNext]_vars

\* C2: classification coverage: for every method, every numClasses >= 1 and
\* every non-empty grid, every cell gets a class that is an integer of
\* 0..numClasses-1.
C2_ClassInRange ==
    pc = "classifyGrid" =>
        /\ Len(result) = Len(grid)
        /\ \A k \in DOMAIN result : result[k].class \in 0..(config.numClasses - 1)

\* a grid of distinct values with more classes than cells: bottom, middle and
\* top classes are all assigned
C2_Witness ==
    /\ pc = "classifyGrid"
    /\ config.numClasses = 3
    /\ Len(result) = 4
    /\ {result[k].class : k \in DOMAIN result} = {0, 1, 2}

ConstantGrid == \A j, k \in DOMAIN grid : grid[j].value = grid[k].value

ClassCount(c) == Cardinality({k \in DOMAIN result : result[k].class = c})

DistinctValues == \A j, k \in DOMAIN grid : j # k => grid[j].value # grid[k].value

\* C24 as stated: with the method quantile and n >= numClasses values, the
\* numbers of cells of any two classes differ by at most 1.
C24_QuantileBalance ==
    (/\ pc = "classifyGrid"
     /\ config.classificationMethod = "quantile"
     /\ Len(grid) >= config.numClasses) =>
        \A c, d \in 0..(config.numClasses - 1) : ClassCount(c) - ClassCount(d) <= 1

\* C24: with the method quantile and n >= numClasses values that are pairwise
\* distinct, the numbers of cells of any two classes differ by at most 1.
C24_QuantileBalanceDistinct ==
    (/\ pc = "classifyGrid"
     /\ config.classificationMethod = "quantile"
     /\ Len(grid) >= config.numClasses
     /\ DistinctValues) =>
        \A c, d \in 0..(config.numClasses - 1) : ClassCount(c) - ClassCount(d) <= 1

\* four distinct values in three classes: one, one and two cells
C24_Witness ==
    /\ pc = "classifyGrid"
    /\ config.classificationMethod = "quantile"
    /\ Len(grid) = 4
    /\ config.numClasses = 3
    /\ DistinctValues
    /\ <<ClassCount(0), ClassCount(1), ClassCount(2)>> = <<1, 1, 2>>

\* C28: for every method and every numClasses >= 1, of two cells of a grid
\* the one with the smaller value has the smaller or the same class, and two
\* cells of equal values have the same class.
C28_ClassMonotone ==
    pc = "classifyGrid" =>
        \A j, k \in DOMAIN result :
            /\ RLe(result[j].value, result[k].value) => result[j].class <= result[k].class
            /\ result[j].value = result[k].value => result[j].class = result[k].class

\* cells of equal values apart in the grid, between cells of a lower and of a
\* higher class
C28_Witness ==
    /\ pc = "classifyGrid"
    /\ Len(result) = 4
    /\ config.numClasses >= 3
    /\ result[1].value = result[3].value
    /\ result[2].class < result[1].class
    /\ result[1].class < result[4].class

(***************************************************************************)
(* calculateResiduals                                                      *)
(***************************************************************************)
\* x.toFixed(4): the sign of x and |x| rounded to the nearest multiple of
\* 0.0001 (a negative x that rounds to zero still prints as "-0.0000")
ToFixed4(x) ==
    [neg |-> x < 0, digits |-> (2 * Abs(x) + UnitsPerE4) \div (2 * UnitsPerE4)]

\* `${lat.toFixed(4)}_${lng.toFixed(4)}`
ResidualKey(p) == <<ToFixed4(p.lat), ToFixed4(p.lng)>>

CvFoldSize(n, kFolds) == n \div kFolds

\* fold and the indices testStart, testEnd, idx, i count from 0 as in the code
TestStart(fold, foldSize) == fold * foldSize
TestEnd_noRemainder(fold, foldSize, kFolds, n) == (fold + 1) * foldSize
TestEnd(fold, foldSize, kFolds, n) ==
    IF fold = kFolds - 1 THEN n ELSE (fold + 1) * foldSize

\* dist > 0.0001
BeyondEpsilon(d2) == d2 > Epsilon * Epsilon

\* idx < testStart || idx >= testEnd
InOtherFold_any(idx, testStart, testEnd) == TRUE
InOtherFold(idx, testStart, testEnd) == idx < testStart \/ idx >= testEnd

\* one call of the inner forEach callback: acc = <<weightedSum, weightSum>>
CvVisit(acc, testPoint, p, idx, testStart, testEnd, power) ==
    IF InOtherFold(idx, testStart, testEnd)
    THEN LET d2 == Dist2(testPoint, p)
         IN  IF BeyondEpsilon(d2)
             THEN LET weight == IdwWeight(d2, power)
                  IN  <<RAdd(acc[1], RMul(weight, RInt(Target(p)))), RAdd(acc[2], weight)>>
             ELSE acc
    ELSE acc

RECURSIVE CvForEach(_, _, _, _, _, _, _)
CvForEach(acc, testPoint, pts, idx, testStart, testEnd, power) ==
    IF idx >= Len(pts) THEN acc
    ELSE CvForEach(CvVisit(acc, testPoint, pts[idx + 1], idx, testStart, testEnd, power),
                   testPoint, pts, idx + 1, testStart, testEnd, power)

\* the body of the loop over i: the entry written to residuals
CvEntry(pts, fold, i, testStart, testEnd, power) ==
    LET testPoint == pts[i + 1]
        observed == RInt(Target(testPoint))
        acc == CvForEach(<<RInt(0), RInt(0)>>, testPoint, pts, 0, testStart, testEnd, power)
        predicted == IF RLt(RInt(0), acc[2]) THEN RDiv(acc[1], acc[2]) ELSE observed
    IN  [fold |-> fold, i |-> i, key |-> ResidualKey(testPoint),
         residual |-> RSub(observed, predicted)]

RECURSIVE CvFoldPoints(_, _, _, _, _, _)
CvFoldPoints(pts, fold, i, testStart, testEnd, power) ==
    IF i < testEnd
    THEN <<CvEntry(pts, fold, i, testStart, testEnd, power)>>
         \o CvFoldPoints(pts, fold, i + 1, testStart, testEnd, power)
    ELSE <<>>

\* the loop over the folds: the residual entries in the order they are written
RECURSIVE CvFolds(_, _, _, _)
CvFolds(pts, fold, kFolds, power) ==
    IF fold < kFolds
    THEN LET foldSize == CvFoldSize(Len(pts), kFolds)
             testStart == TestStart(fold, foldSize)
             testEnd == TestEnd(fold, foldSize, kFolds, Len(pts))
         IN  CvFoldPoints(pts, fold, testStart, testStart, testEnd, power)
             \o CvFolds(pts, fold + 1, kFolds, power)
    ELSE <<>>

\* the residuals record after the writes: a later write to a key replaces
\* the earlier one
ResidualsRecord(writes) ==
    [key \in {writes[j].key : j \in DOMAIN writes} |->
        writes[SetMax({j \in DOMAIN writes : writes[j].key = key})].residual]

\* residuals[key] || 0
Lookup(residuals, key) == IF key \in DOMAIN residuals THEN residuals[key] ELSE RInt(0)

\* one call of the callback of the nearest-sample loop: acc = <<minDist2,
\* nearestResidual>>, minDist2 = -1 standing for Infinity
NearestVisit(acc, cell, p, residuals) ==
    LET d2 == Dist2(cell, p)
    IN  IF acc[1] = -1 \/ d2 < acc[1]
        THEN <<d2, Lookup(residuals, ResidualKey(p))>>
        ELSE acc

RECURSIVE NearestForEach(_, _, _, _, _)
NearestForEach(acc, cell, pts, i, residuals) ==
    IF i > Len(pts) THEN acc
    ELSE NearestForEach(NearestVisit(acc, cell, pts[i], residuals), cell, pts, i + 1, residuals)

\* the returned grid: every cell with the residual the nearest-sample loop
\* leaves in nearestResidual
ResidualGrid(pts, g, residuals) ==
    [k \in DOMAIN g |->
        With(g[k], "residual", NearestForEach(<<-1, RInt(0)>>, g[k], pts, 1, residuals)[2])]

\* the returned grid, with the locals as they are at the return: writes (every
\* residuals[key] = residual, in order) and residuals
CvReturn(pts, g, writes, residuals) ==
    [grid |-> ResidualGrid(pts, g, residuals), residuals |-> residuals, writes |-> writes]

CvRecord(pts, g, writes) == CvReturn(pts, g, writes, ResidualsRecord(writes))

calculateResiduals(pts, g, kFolds, power) == CvRecord(pts, g, CvFolds(pts, 0, kFolds, power))

(***************************************************************************)
(* Specification SpecCV: performIDW on a given lattice, then               *)
(* calculateResiduals on the continuous grid                               *)
(***************************************************************************)
MaxCvPoints == 4
MaxFolds == 5
CvLats == {0, 1, 5}
CvLngs == {0}
CvValues == {0, 3}
CvCellLats == <<0, 1, 3, 5>>
CvCellLngs == <<0, 4>>
CvPower == 2

\* the cells the continuous grid is computed at
CvLattice ==
    [k \in 1..(Len(CvCellLats) * Len(CvCellLngs)) |->
        [lat |-> CvCellLats[(k - 1) \div Len(CvCellLngs) + 1],
         lng |-> CvCellLngs[((k - 1) % Len(CvCellLngs)) + 1]]]

CvInit ==
    /\ pc = "init"
    /\ points \in SeqsOf({DataPoint(la, ln, v) : la \in CvLats, ln \in CvLngs, v \in CvValues},
                         1, MaxCvPoints)
    /\ config = [idwPower |-> CvPower]
    /\ grid = CvLattice
    /\ result = Unset
    /\ NoFrame
    /\ plotter = Unset

CalculateResiduals ==
    /\ pc = "performIDW"
    /\ pc' = "calculateResiduals"
    /\ \E k \in 1..MaxFolds, g \in {StageInput} :
          /\ config' = With(config, "cvFolds", k)
          /\ grid' = g
          /\ result' = calculateResiduals(points, g, k, config.idwPower)
    /\ UNCHANGED <<points, locals, calls, plotter>>

CvNext == PerformIDW \/ CalculateResiduals

SpecCV == CvInit /\ [][CvNext]_vars

FoldsInRange == 2 <= config.cvFolds /\ config.cvFolds <= Len(points)

\* C5: for 2 <= k <= n the folds are contiguous index ranges in input order,
\* folds 0..k-2 hold floor(n/k) points each and the last fold holds the rest,
\* so every point is held out exactly once.
C5_FoldPartition ==
    (pc = "calculateResiduals" /\ FoldsInRange) =>
        LET n == Len(points)
            k == config.cvFolds
            w == result.writes
        IN  /\ Len(w) = n
            /\ \A j \in 1..n : w[j].i = j - 1
            /\ \A j \in 1..n :
                  w[j].fold = (IF (j - 1) \div (n \div k) < k - 1
                               THEN (j - 1) \div (n \div k) ELSE k - 1)
            /\ \A f \in 0..(k - 2) : Cardinality({j \in 1..n : w[j].fold = f}) = n \div k
            /\ Cardinality({j \in 1..n : w[j].fold = k - 1}) = n - (k - 1) * (n \div k)

\* n is not a multiple of k: the last fold takes the remainder
C5_Witness ==
    /\ pc = "calculateResiduals"
    /\ Len(points) = 4
    /\ config.cvFolds = 3
    /\ [j \in 1..4 |-> result.writes[j].fold] = <<0, 1, 2, 2>>

\* C4: for 2 <= k <= n the cross-validation records exactly n residual
\* entries, one per sample point.
C4_OneEntryPerPoint ==
    (pc = "calculateResiduals" /\ FoldsInRange) =>
        Cardinality(DOMAIN result.residuals) = Len(points)

\* the residual cross-validation computed for the sample of index i (from 0)
ResidualOf(i) ==
    LET j == CHOOSE j \in DOMAIN result.writes : result.writes[j].i = i
    IN  result.writes[j].residual

\* C3: every returned cell carries the cross-validation residual computed for
\* a sample point nearest to the cell, for any sample set and fold count.
C3_NearestResidual ==
    pc = "calculateResiduals" =>
        \A c \in DOMAIN result.grid :
            \E i \in DOMAIN points :
                /\ \A j \in DOMAIN points :
                      Dist2(result.grid[c], points[i]) <= Dist2(result.grid[c], points[j])
                /\ result.grid[c].residual = ResidualOf(i - 1)

\* C18: a fold count k outside [2, n] (k < 2 or k > n, n the number of sample
\* points) is refused with InvalidConfig: calculateResiduals never goes
\* through its fold loop and returns a residual grid for such a k.
C18_FoldCountChecked ==
    pc = "calculateResiduals" => FoldsInRange

\* the indices (from 0) of the points of the other folds than the fold of the
\* entry w, and those of them that lie within the coincidence radius of the
\* held-out point or beyond it
TrainingOf(w) ==
    LET foldSize == Len(points) \div config.cvFolds
        first == w.fold * foldSize
        last == IF w.fold = config.cvFolds - 1 THEN Len(points) - 1
                ELSE (w.fold + 1) * foldSize - 1
    IN  (0..(Len(points) - 1)) \ (first..last)
CoincidentTraining(w) ==
    {idx \in TrainingOf(w) : Dist2(points[w.i + 1], points[idx + 1]) < Epsilon * Epsilon}
DistantTraining(w) ==
    {idx \in TrainingOf(w) : Dist2(points[w.i + 1], points[idx + 1]) > Epsilon * Epsilon}

\* C22: when a point of another fold lies within the coincidence radius of
\* the held-out point, the recorded residual is the observed value minus the
\* target value of such a point.
C22_CoincidenceRule ==
    pc = "calculateResiduals" =>
        \A j \in DOMAIN result.writes :
            LET w == result.writes[j] IN
            CoincidentTraining(w) # {} =>
                \E idx \in CoincidentTraining(w) :
                    w.residual = RInt(Target(points[w.i + 1]) - Target(points[idx + 1]))

\* the sums of weight * value and of weight over the points of the indices idxs
RECURSIVE WeightedSums(_, _)
WeightedSums(testPoint, idxs) ==
    IF idxs = {} THEN <<RInt(0), RInt(0)>>
    ELSE LET idx == CHOOSE x \in idxs : TRUE
             rest == WeightedSums(testPoint, idxs \ {idx})
             weight == Rat(1, IPow(Dist2(testPoint, points[idx + 1]), config.idwPower \div 2))
         IN  <<RAdd(rest[1], RMul(weight, RInt(Target(points[idx + 1])))),
               RAdd(rest[2], weight)>>

\* C23: the prediction for a held-out point is the weighted average over the
\* points of the other folds beyond the coincidence radius and over no other
\* point: no point of the held-out fold has a weight in it; when no point of
\* another fold contributes, the prediction is the observed value and the
\* residual is 0.
C23_OtherFoldsOnly ==
    pc = "calculateResiduals" =>
        \A j \in DOMAIN result.writes :
            LET w == result.writes[j]
                testPoint == points[w.i + 1]
                sums == WeightedSums(testPoint, DistantTraining(w))
            IN  IF DistantTraining(w) = {} THEN w.residual = RInt(0)
                ELSE w.residual = RSub(RInt(Target(testPoint)), RDiv(sums[1], sums[2]))

\* a point is held out together with a point of another value, far enough to
\* have a weight, while a point of another fold contributes
C23_Witness ==
    /\ pc = "calculateResiduals"
    /\ FoldsInRange
    /\ \E j \in DOMAIN result.writes :
          LET w == result.writes[j] IN
          /\ DistantTraining(w) # {}
          /\ w.residual # RInt(0)
          /\ \E idx \in (0..(Len(points) - 1)) \ TrainingOf(w) :
                /\ idx # w.i
                /\ Dist2(points[w.i + 1], points[idx + 1]) > Epsilon * Epsilon
                /\ Target(points[idx + 1]) # Target(points[w.i + 1])
    /\ \E j \in DOMAIN result.writes :
          /\ TrainingOf(result.writes[j]) # {}
          /\ DistantTraining(result.writes[j]) = {}

(***************************************************************************)
(* calculateAccuracyMap                                                    *)
(***************************************************************************)
\* { ...cell, accuracy: Math.abs(cell.residual || 0) }
AccuracyCell_overValue(cell) == [cell EXCEPT !.value = RAbs(cell.residual)]
AccuracyCell(cell) == With(cell, "accuracy", RAbs(cell.residual))

AccuracyGrid(residualGrid) == [k \in DOMAIN residualGrid |-> AccuracyCell(residualGrid[k])]

calculateAccuracyMap(pts, g, kFolds, power) ==
    AccuracyGrid(calculateResiduals(pts, g, kFolds, power).grid)

(***************************************************************************)
(* calculateConvexHull                                                     *)
(***************************************************************************)
\* the comparator (a, b) => a.lng !== b.lng ? a.lng - b.lng : a.lat - b.lat
\* is <= 0
PointLe(a, b) == IF a.lng # b.lng THEN a.lng < b.lng ELSE a.lat <= b.lat

\* [...points].sort(comparator): a stable sort
RECURSIVE InsertPoint(_, _)
InsertPoint(sorted, p) ==
    IF sorted = <<>> THEN <<p>>
    ELSE IF PointLe(sorted[1], p)
         THEN <<sorted[1]>> \o InsertPoint(Tail(sorted), p)
         ELSE <<p>> \o sorted

RECURSIVE SortPoints(_)
SortPoints(s) ==
    IF s = <<>> THEN <<>> ELSE InsertPoint(SortPoints(SubSeq(s, 1, Len(s) - 1)), s[Len(s)])

cross(o, a, b) == (a.lng - o.lng) * (b.lat - o.lat) - (a.lat - o.lat) * (b.lng - o.lng)

\* cross(...) <= 0: p makes no left turn after the last two points of the chain
NoLeftTurn_strict(chain, p) == cross(chain[Len(chain) - 1], chain[Len(chain)], p) < 0
NoLeftTurn(chain, p) == cross(chain[Len(chain) - 1], chain[Len(chain)], p) <= 0

\* the while loop that pops the chain
RECURSIVE PopWhile(_, _)
PopWhile(chain, p) ==
    IF Len(chain) >= 2 /\ NoLeftTurn(chain, p)
    THEN PopWhile(SubSeq(chain, 1, Len(chain) - 1), p)
    ELSE chain

\* for (const p of sortedPoints), from index i (counted from 1)
RECURSIVE LowerChain(_, _, _)
LowerChain(sortedPoints, i, lower) ==
    IF i > Len(sortedPoints) THEN lower
    ELSE LowerChain(sortedPoints, i + 1, Append(PopWhile(lower, sortedPoints[i]), sortedPoints[i]))

\* for (let i = sortedPoints.length - 1; i >= 0; i--), i counted from 1
RECURSIVE UpperChain(_, _, _)
UpperChain(sortedPoints, i, upper) ==
    IF i < 1 THEN upper
    ELSE UpperChain(sortedPoints, i - 1, Append(PopWhile(upper, sortedPoints[i]), sortedPoints[i]))

Pop(chain) == SubSeq(chain, 1, Len(chain) - 1)

\* points.length < 3
TooFewForHull_two(pts) == Len(pts) < 2
TooFewForHull(pts) == Len(pts) < 3

calculateConvexHull(pts) ==
    IF TooFewForHull(pts) THEN pts
    ELSE LET sortedPoints == SortPoints(pts)
             lower == LowerChain(sortedPoints, 1, <<>>)
             upper == UpperChain(sortedPoints, Len(sortedPoints), <<>>)
         IN  Pop(lower) \o Pop(upper)

\* the array that .sort(...) sorts in place: the copy [...points], not the
\* array points of the caller
SortReceiver_points == "points"
SortReceiver == "copy"

\* the caller's array points when calculateConvexHull has returned
PointsAfterHull(pts) ==
    IF TooFewForHull(pts) \/ SortReceiver = "copy" THEN pts ELSE SortPoints(pts)

(***************************************************************************)
(* Specification SpecHull: calculateConvexHull on bounded point lists      *)
(***************************************************************************)
HullCoords == 0..2
MaxHullPoints == 5

HullInit ==
    /\ pc = "init"
    /\ points \in SeqsOf({DataPoint(la, ln, 0) : la \in HullCoords, ln \in HullCoords},
                         0, MaxHullPoints)
    /\ config = Unset
    /\ grid = Unset
    /\ result = Unset
    /\ NoFrame
    /\ plotter = Unset

CalculateConvexHull ==
    /\ pc = "init"
    /\ pc' = "calculateConvexHull"
    /\ result' = calculateConvexHull(points)
    /\ points' = PointsAfterHull(points)
    /\ UNCHANGED <<config, grid, locals, calls, plotter>>

HullNext == CalculateConvexHull

SpecHull == HullInit /\ [][HullNext]_vars

AllCollinear(pts) ==
    \A i, j, k \in DOMAIN pts : cross(pts[i], pts[j], pts[k]) = 0

\* the vertex after index i around the ring
NextOnRing(ring, i) == ring[(i % Len(ring)) + 1]

SquareWithCentre ==
    <<DataPoint(0, 0, 0), DataPoint(2, 2, 0), DataPoint(1, 1, 0), DataPoint(0, 2, 0),
      DataPoint(2, 0, 0)>>

\* C6: for at least 3 points that are not all collinear the hull is a ring of
\* input points, every input point is inside or on the ring, all consecutive
\* vertex triples turn the same way (left, with lng as x and lat as y), and no
\* vertex lies strictly inside the hull or inside a hull edge (the ring is
\* strictly convex and every vertex is an extreme point); for the 4 corners
\* of a square plus an interior point the ring is exactly the 4 corners.
C6_HullCorrect ==
    (pc = "calculateConvexHull" /\ Len(points) >= 3 /\ ~AllCollinear(points)) =>
        /\ Len(result) >= 3
        /\ \A h \in DOMAIN result : \E i \in DOMAIN points : result[h] = points[i]
        /\ \A h \in DOMAIN result : \A i \in DOMAIN points :
              cross(result[h], NextOnRing(result, h), points[i]) >= 0
        /\ \A h \in DOMAIN result :
              cross(result[h], NextOnRing(result, h), NextOnRing(result, h + 1)) > 0
        /\ \A h, g \in DOMAIN result : h # g => result[h] # result[g]
        /\ \A h \in DOMAIN result :
              ~ \E i, j \in DOMAIN points :
                    /\ points[i] # result[h] /\ points[j] # result[h]
                    /\ cross(points[i], points[j], result[h]) = 0
                    /\ (result[h].lat - points[i].lat) * (result[h].lat - points[j].lat)
                       + (result[h].lng - points[i].lng) * (result[h].lng - points[j].lng) < 0
        /\ points = SquareWithCentre =>
              result = <<DataPoint(0, 0, 0), DataPoint(0, 2, 0), DataPoint(2, 2, 0),
                         DataPoint(2, 0, 0)>>

\* the square with its centre, given in an order that is not sorted
C6_Witness ==
    /\ pc = "calculateConvexHull"
    /\ points = SquareWithCentre
    /\ Len(result) = 4

\* C20: called with fewer than 3 points (0, 1 or 2), calculateConvexHull
\* returns its input: the same points in the same order.
C20_SmallHullIsInput ==
    (pc = "calculateConvexHull" /\ Len(points) < 3) => result = points

\* two distinct points given in an order the sort would change
C20_Witness ==
    /\ pc = "calculateConvexHull"
    /\ Len(points) = 2
    /\ points[1].lng > points[2].lng
    /\ result = points

(***************************************************************************)
(* calculateUncertainty                                                    *)
(*                                                                         *)
(* An uncertainty value is kept exactly as [distSq, density], standing for *)
(* the number DistWeight * sqrt(distSq) + DensityWeight * density, where   *)
(* distSq = (minDist / (maxDist || 1))^2 and density = densityFactor are   *)
(* rationals.  ULt and ULe compare that number with a rational.            *)
(***************************************************************************)
NearbyRadius == 500 * UnitsPerE4        \* 0.05 degree
DistWeight == Rat(6, 10)                \* 0.6
DensityWeight == Rat(4, 10)             \* 0.4

\* Math.min(...points.map(p => dist)), squared
MinDist2(cell, pts) == SetMin({Dist2(cell, pts[i]) : i \in DOMAIN pts})

\* maxDist over the grid, squared
MaxDist2(pts, g) == SetMax({MinDist2(g[k], pts) : k \in DOMAIN g})

\* (maxDist || 1), squared
NormDist2_one(maxDist2) == 1
NormDist2(maxDist2) == IF maxDist2 = 0 THEN 1 ELSE maxDist2

NearbyPoints(cell, pts) ==
    Cardinality({i \in DOMAIN pts : Dist2(cell, pts[i]) < NearbyRadius * NearbyRadius})

\* 1 - Math.min(nearbyPoints / 5, 1)
DensityFactor(nearbyPoints) ==
    RSub(RInt(1), RSetMin({Rat(nearbyPoints, 5), RInt(1)}))

CellUncertainty(cell, pts, maxDist2) ==
    [distSq |-> Rat(MinDist2(cell, pts), NormDist2(maxDist2)),
     density |-> DensityFactor(NearbyPoints(cell, pts))]

UncertaintyGrid(pts, g, maxDist2) ==
    [k \in DOMAIN g |-> With(g[k], "uncertainty", CellUncertainty(g[k], pts, maxDist2))]

calculateUncertainty(pts, g) == UncertaintyGrid(pts, g, MaxDist2(pts, g))

\* the bound c with: uncertainty < t  <=>  sqrt(distSq) < c
UBound(u, t) == RDiv(RSub(t, RMul(DensityWeight, u.density)), DistWeight)

\* uncertainty < t and uncertainty <= t, for a rational t
ULt(u, t) == LET c == UBound(u, t) IN RLt(RInt(0), c) /\ RLt(u.distSq, RMul(c, c))
ULe(u, t) == LET c == UBound(u, t) IN RLe(RInt(0), c) /\ RLe(u.distSq, RMul(c, c))

(***************************************************************************)
(* Specification SpecUncertainty: calculateUncertainty on bounded inputs   *)
(***************************************************************************)
MaxUncPoints == 5
MaxUncCells == 2
UncLats == {0, 1200, 3000}
UncCellLngs == {0, 900}

UncertaintyInit ==
    /\ pc = "init"
    /\ points \in SeqsOf({DataPoint(la, 0, 0) : la \in UncLats}, 1, MaxUncPoints)
    /\ grid \in SeqsOf({[lat |-> la, lng |-> ln, value |-> RInt(0)] :
                            la \in UncLats, ln \in UncCellLngs}, 1, MaxUncCells)
    /\ config = Unset
    /\ result = Unset
    /\ NoFrame
    /\ plotter = Unset

CalculateUncertainty ==
    /\ pc \in {"init", "performIDW"}
    /\ StageInput # Unset
    /\ pc' = "calculateUncertainty"
    /\ \E g \in {StageInput} :
          /\ grid' = g
          /\ result' = calculateUncertainty(points, g)
    /\ UNCHANGED <<points, config, locals, calls, plotter>>

UncertaintyNext == CalculateUncertainty

SpecUncertainty == UncertaintyInit /\ [][UncertaintyNext]_vars

\* C8: for a non-empty sample set and a non-empty grid every uncertainty value
\* lies in [0, 1], also when the maximum nearest-sample distance is zero.
C8_UncertaintyInUnit ==
    pc = "calculateUncertainty" =>
        \A k \in DOMAIN result :
            /\ ULe(result[k].uncertainty, RInt(1))
            /\ ~ULt(result[k].uncertainty, RInt(0))

\* every cell lies on a sample (the maximum nearest-sample distance is zero)
\* and fewer than 5 samples are near, so the value is above 0
C8_Witness ==
    /\ pc = "calculateUncertainty"
    /\ MaxDist2(points, grid) = 0
    /\ Len(grid) = 2
    /\ \A k \in DOMAIN result : ~ULe(result[k].uncertainty, RInt(0))

(***************************************************************************)
(* calculateRPE and isPointInPolygon                                       *)
(***************************************************************************)
RECURSIVE SumOf(_, _)
\* hull.reduce((sum, h) => sum + h[f], 0)
SumOf(hull, f) == IF hull = <<>> THEN 0 ELSE hull[1][f] + SumOf(Tail(hull), f)

\* p[f] + (p[f] > mean of the hull's f ? buffer : -buffer)
Pushed(p, f, hull, buffer) ==
    p[f] + (IF p[f] * Len(hull) > SumOf(hull, f) THEN buffer ELSE -buffer)

BufferedHull(hull, buffer) ==
    [h \in DOMAIN hull |->
        [hull[h] EXCEPT !.lat = Pushed(hull[h], "lat", hull, buffer),
                        !.lng = Pushed(hull[h], "lng", hull, buffer)]]

\* The quotient of the ray-casting test is where the rounding of the code's
\* binary floating point decides the outcome (a cell that lies exactly on an
\* edge), so the test is computed in floating point: every operation returns
\* the exact result rounded to the nearest number with a significand of
\* MantissaBits bits, ties to the even significand.  The build's numbers are
\* IEEE doubles, with 53 bits; the coordinates the model draws are whole
\* numbers of at most MantissaBits bits, which are exact.
MantissaBits == 5

\* the significands are the whole numbers from MinSignificand to
\* 2 * MinSignificand - 1
MinSignificand == IPow(2, MantissaBits - 1)

\* 2^e, for e below zero too
Pow2(e) == IF e >= 0 THEN RInt(IPow(2, e)) ELSE Rat(1, IPow(2, -e))

\* n / d > 0 is the number to round, divided by 2^e: the exponent e is moved
\* until the quotient has MantissaBits bits before the point, and the quotient
\* is rounded to a whole number
RECURSIVE FlRound(_, _, _)
FlRound(n, d, e) ==
    IF n >= 2 * MinSignificand * d THEN FlRound(n, 2 * d, e + 1)
    ELSE IF n < MinSignificand * d THEN FlRound(2 * n, d, e - 1)
    ELSE LET m == n \div d
             twice == 2 * (n % d)
             up == twice > d \/ (twice = d /\ m % 2 = 1)
         IN  RMul(RInt(IF up THEN m + 1 ELSE m), Pow2(e))

\* q rounded; a whole number of at most MantissaBits bits is a floating-point
\* number already
Fl(q) ==
    IF q[2] = 1 /\ Abs(q[1]) < 2 * MinSignificand THEN q
    ELSE IF q[1] < 0 THEN RNeg(FlRound(-q[1], q[2], 0))
    ELSE FlRound(q[1], q[2], 0)

FAdd(a, b) == Fl(RAdd(a, b))
FSub(a, b) == Fl(RSub(a, b))
FMul(a, b) == Fl(RMul(a, b))
FDiv(a, b) == Fl(RDiv(a, b))

\* (xj - xi) * (point.lat - yi) / (yj - yi) + xi
EdgeLng(point, pi, pj) ==
    FAdd(FDiv(FMul(FSub(RInt(pj.lng), RInt(pi.lng)), FSub(RInt(point.lat), RInt(pi.lat))),
              FSub(RInt(pj.lat), RInt(pi.lat))),
         RInt(pi.lng))

\* the condition under which the edge from polygon[j] to polygon[i] toggles inside
EdgeCrossed(point, pi, pj) ==
    /\ (pi.lat > point.lat) # (pj.lat > point.lat)
    /\ RLt(RInt(point.lng), EdgeLng(point, pi, pj))

\* the loop for (i = 0, j = polygon.length - 1; i < polygon.length; j = i++),
\* with i and j counted from 1
RECURSIVE PolygonLoop(_, _, _, _, _)
PolygonLoop(inside, point, polygon, i, j) ==
    IF i > Len(polygon) THEN inside
    ELSE PolygonLoop(IF EdgeCrossed(point, polygon[i], polygon[j]) THEN ~inside ELSE inside,
                     point, polygon, i + 1, i)

isPointInPolygon(point, polygon) == PolygonLoop(FALSE, point, polygon, 1, Len(polygon))

\* dist < len, for a distance given by its square
WithinLen(d2, len) == len > 0 /\ d2 < len * len

\* (cell.uncertainty || 0) < uncertaintyThreshold
LowUncertainty(cell, uncertaintyThreshold) ==
    IF "uncertainty" \in DOMAIN cell
    THEN ULt(cell.uncertainty, uncertaintyThreshold)
    ELSE RLt(RInt(0), uncertaintyThreshold)

CountWithin(cell, pts, len) ==
    Cardinality({i \in DOMAIN pts : WithinLen(Dist2(cell, pts[i]), len)})

\* inHull && hasPoints && lowUncertainty
Combined_noUncertainty(inHull, hasPoints, lowUncertainty) == inHull /\ hasPoints
Combined(inHull, hasPoints, lowUncertainty) == inHull /\ hasPoints /\ lowUncertainty

\* the switch over the method
Reliable(cell, pts, bufferedHull, method, buffer, uncertaintyThreshold) ==
    CASE method = "convex-hull" -> isPointInPolygon(cell, bufferedHull)
      [] method = "distance" -> WithinLen(MinDist2(cell, pts), buffer * 3)
      [] method = "kernel-density" -> CountWithin(cell, pts, buffer * 5) >= 2
      [] method = "uncertainty" -> LowUncertainty(cell, uncertaintyThreshold)
      [] method = "combined" ->
            Combined(isPointInPolygon(cell, bufferedHull),
                     CountWithin(cell, pts, buffer * 4) >= 1,
                     LowUncertainty(cell, uncertaintyThreshold))
      [] OTHER -> TRUE

RpeReturn(pts, g, bufferedHull, method, buffer, uncertaintyThreshold) ==
    [grid |-> [k \in DOMAIN g |->
                  With(g[k], "reliable",
                       Reliable(g[k], pts, bufferedHull, method, buffer, uncertaintyThreshold))],
     polygon |-> bufferedHull]

calculateRPE(pts, g, method, buffer, uncertaintyThreshold) ==
    RpeReturn(pts, g, BufferedHull(calculateConvexHull(pts), buffer), method, buffer,
              uncertaintyThreshold)

(***************************************************************************)
(* Specification SpecRPE: generateGrid, performIDW, calculateUncertainty   *)
(* as runAnalysis chains them, then calculateRPE on the grid with          *)
(* uncertainty, called again with the buffer enlarged or kept.  After the  *)
(* first call result is the sequence of what the calls returned, each with *)
(* its buffer.                                                             *)
(***************************************************************************)
MaxRpePoints == 3
MaxBuffer == 3
MaxRpeCalls == 2
RpeCoords == 0..2
RpeResolution == 2
RpeMethods == {"convex-hull", "distance", "kernel-density", "uncertainty", "combined"}
DefaultThreshold == Rat(3, 10)

RpeInit ==
    /\ pc = "init"
    /\ points \in SeqsOf({DataPoint(la, ln, 0) : la \in RpeCoords, ln \in RpeCoords},
                         3, MaxRpePoints)
    /\ \E m \in RpeMethods :
          config = [gridResolution |-> RpeResolution, idwPower |-> CvPower, rpeMethod |-> m,
                    rpeBuffer |-> 0, uncertaintyThreshold |-> DefaultThreshold]
    /\ grid = Unset
    /\ result = Unset
    /\ NoFrame
    /\ plotter = Unset

CalculateRPE ==
    /\ pc \in {"calculateUncertainty", "calculateRPE"}
    /\ pc = "calculateRPE" => Len(result) < MaxRpeCalls
    /\ pc' = "calculateRPE"
    /\ \E b \in 0..MaxBuffer, g \in {IF pc = "calculateRPE" THEN grid ELSE result} :
          /\ b >= config.rpeBuffer
          /\ config' = [config EXCEPT !.rpeBuffer = b]
          /\ grid' = g
          /\ result' = Append(IF pc = "calculateRPE" THEN result ELSE <<>>,
                 With(calculateRPE(points, g, config.rpeMethod, b,
                                   config.uncertaintyThreshold), "buffer", b))
    /\ points' = PointsAfterHull(points)
    /\ UNCHANGED <<locals, calls, plotter>>

RpeNext == GenerateGrid \/ PerformIDW \/ CalculateUncertainty \/ CalculateRPE

SpecRPE == RpeInit /\ [][RpeNext]_vars

ReliableCount(g) == Cardinality({k \in DOMAIN g : g[k].reliable})

\* C7: RPE monotonicity: for fixed points and grid and each of the methods
\* convex-hull and distance, a call with a buffer at least as large marks at
\* least as many cells reliable.
C7_RpeMonotone ==
    (pc = "calculateRPE" /\ config.rpeMethod \in {"convex-hull", "distance"}) =>
        \A i, j \in DOMAIN result :
            result[i].buffer <= result[j].buffer
            => ReliableCount(result[i].grid) <= ReliableCount(result[j].grid)

\* C25: with the method distance a cell is reliable exactly when its nearest
\* sample is at a distance of at most 3 * buffer, a distance of exactly
\* 3 * buffer included.
C25_DistanceInclusive ==
    (pc = "calculateRPE" /\ config.rpeMethod = "distance") =>
        \A c \in DOMAIN result : \A k \in DOMAIN result[c].grid :
            result[c].grid[k].reliable
                <=> MinDist2(grid[k], points) <= (3 * result[c].buffer) * (3 * result[c].buffer)

\* what calculateRPE marks with another method, for the same points, grid,
\* buffer and threshold as the call c
ReliableUnder(method, c, k) ==
    Reliable(grid[k], points, result[c].polygon, method, result[c].buffer,
             config.uncertaintyThreshold)

\* C26: with the method combined a cell is reliable exactly when it is inside
\* the buffered hull, has a sample nearer than 4 * buffer and has an
\* uncertainty below the threshold; so a cell reliable with combined is
\* reliable with convex-hull and with uncertainty, for the same points, grid,
\* buffer and threshold.
C26_CombinedConjunction ==
    (pc = "calculateRPE" /\ config.rpeMethod = "combined") =>
        \A c \in DOMAIN result : \A k \in DOMAIN result[c].grid :
            LET cell == grid[k]
                range == 4 * result[c].buffer
            IN  /\ result[c].grid[k].reliable
                       <=> /\ isPointInPolygon(cell, result[c].polygon)
                           /\ \E i \in DOMAIN points :
                                 range > 0 /\ Dist2(cell, points[i]) < range * range
                           /\ ULt(cell.uncertainty, config.uncertaintyThreshold)
                /\ result[c].grid[k].reliable
                       => ReliableUnder("convex-hull", c, k) /\ ReliableUnder("uncertainty", c, k)

\* a call with combined has marked a cell reliable, and has left out a cell
\* of the hull and a cell of low uncertainty
C26_Witness ==
    /\ pc = "calculateRPE"
    /\ config.rpeMethod = "combined"
    /\ \E c \in DOMAIN result :
          /\ \E k \in DOMAIN grid : result[c].grid[k].reliable
          /\ \E k \in DOMAIN grid :
                ~result[c].grid[k].reliable /\ ReliableUnder("convex-hull", c, k)
          /\ \E k \in DOMAIN grid :
                ~result[c].grid[k].reliable /\ ReliableUnder("uncertainty", c, k)

(***************************************************************************)
(* performIDW in floating point: the arithmetic of IdwVisit and IdwValue   *)
(* with every operation rounded to MantissaBits bits, as in the ray-       *)
(* casting test.  Coordinates and target values are whole numbers of at    *)
(* most MantissaBits bits.                                                 *)
(***************************************************************************)
\* y = n / d is at least MinSignificand^2 and below 4 * MinSignificand^2: the
\* square root of y rounded to a whole number, ties to even
SqrtRounded(n, d) ==
    LET s == SetMax({m \in MinSignificand..(2 * MinSignificand - 1) : m * m * d <= n})
        odd == 2 * s + 1
        up == 4 * n > odd * odd * d \/ (4 * n = odd * odd * d /\ s % 2 = 1)
    IN  IF up THEN s + 1 ELSE s

\* Math.sqrt: n / d > 0 is the number divided by 4^e
RECURSIVE FSqrtScaled(_, _, _)
FSqrtScaled(n, d, e) ==
    IF n >= 4 * MinSignificand * MinSignificand * d THEN FSqrtScaled(n, 4 * d, e + 1)
    ELSE IF n < MinSignificand * MinSignificand * d THEN FSqrtScaled(4 * n, d, e - 1)
    ELSE RMul(RInt(SqrtRounded(n, d)), Pow2(e))

FSqrt(q) == IF q[1] = 0 THEN q ELSE FSqrtScaled(q[1], q[2], 0)

\* Math.pow(x, power) for a whole power >= 0
FPow(x, power) == Fl(<<IPow(x[1], power), IPow(x[2], power)>>)

\* Math.sqrt(Math.pow(cell.lat - point.lat, 2) + Math.pow(cell.lng - point.lng, 2))
FDist(cell, point) ==
    FSqrt(FAdd(FPow(FSub(RInt(cell.lat), RInt(point.lat)), 2),
               FPow(FSub(RInt(cell.lng), RInt(point.lng)), 2)))

\* one call of the forEach callback, as IdwVisit
FIdwVisit(acc, cell, point, power) ==
    LET dist == FDist(cell, point)
    IN  IF RLt(dist, RInt(Epsilon))
        THEN <<RInt(Target(point)), RInt(1)>>
        ELSE LET weight == FDiv(RInt(1), FPow(dist, power))
             IN  <<FAdd(acc[1], FMul(weight, RInt(Target(point)))), FAdd(acc[2], weight)>>

RECURSIVE FIdwForEach(_, _, _, _, _)
FIdwForEach(acc, cell, pts, i, power) ==
    IF i > Len(pts) THEN acc
    ELSE FIdwForEach(FIdwVisit(acc, cell, pts[i], power), cell, pts, i + 1, power)

FIdwValue(cell, pts, power) ==
    LET acc == FIdwForEach(<<RInt(0), RInt(0)>>, cell, pts, 1, power)
    IN  IF RLt(RInt(0), acc[2]) THEN FDiv(acc[1], acc[2]) ELSE RInt(0)

FPerformIDW(pts, g, power) ==
    [k \in DOMAIN g |->
        [lat |-> g[k].lat, lng |-> g[k].lng, value |-> FIdwValue(g[k], pts, power)]]

(***************************************************************************)
(* Specification SpecIDWFloat: generateGrid, then performIDW in floating   *)
(* point on its lattice                                                    *)
(***************************************************************************)
MaxFloatPoints == 2
FloatLats == {0, 3}
FloatLngs == {0, 4}
FloatValues == {3, 7}
FloatResolutions == {2, 3}
FloatPowers == {1, 2}

FloatInit ==
    /\ pc = "init"
    /\ points \in SeqsOf({DataPoint(la, ln, v) :
                             la \in FloatLats, ln \in FloatLngs, v \in FloatValues},
                         1, MaxFloatPoints)
    /\ \E r \in FloatResolutions, pw \in FloatPowers :
          config = [gridResolution |-> r, idwPower |-> pw]
    /\ grid = Unset
    /\ result = Unset
    /\ NoFrame
    /\ plotter = Unset

PerformIDWFloat ==
    /\ pc = "generateGrid"
    /\ pc' = "performIDW"
    /\ grid' = result
    /\ result' = FPerformIDW(points, result, config.idwPower)
    /\ UNCHANGED <<points, config, locals, calls, plotter>>

FloatNext == GenerateGrid \/ PerformIDWFloat

SpecIDWFloat == FloatInit /\ [][FloatNext]_vars

TargetsOf(pts) == {Target(pts[i]) : i \in DOMAIN pts}

\* C27: for any sample points, at least one, and any power, every value
\* performIDW returns is at least the least target value of the points and
\* at most the greatest.
C27_IdwWithinRange ==
    pc = "performIDW" =>
        \A k \in DOMAIN result :
            /\ RLe(RInt(SetMin(TargetsOf(points))), result[k].value)
            /\ RLe(result[k].value, RInt(SetMax(TargetsOf(points))))

(***************************************************************************)
(* calculateMetrics                                                        *)
(***************************************************************************)
\* values.reduce((a, b) => a + b, 0)
RECURSIVE SumTargets(_)
SumTargets(pts) ==
    IF pts = <<>> THEN 0 ELSE SumTargets(SubSeq(pts, 1, Len(pts) - 1)) + Target(pts[Len(pts)])

\* values.reduce((a, b) => a + Math.pow(b - mean, 2), 0)
RECURSIVE SumSquares(_, _)
SumSquares(pts, mean) ==
    IF pts = <<>> THEN RInt(0)
    ELSE LET dev == RSub(RInt(Target(pts[Len(pts)])), mean)
         IN  RAdd(SumSquares(SubSeq(pts, 1, Len(pts) - 1), mean), RMul(dev, dev))

\* the greatest whole number whose square is at most n, for lo * lo <= n
RECURSIVE IsqrtIn(_, _, _)
IsqrtIn(lo, hi, n) ==
    IF lo = hi THEN lo
    ELSE LET mid == (lo + hi + 1) \div 2
         IN  IF mid * mid <= n THEN IsqrtIn(mid, hi, n) ELSE IsqrtIn(lo, mid - 1, n)

\* x.toFixed(3): the sign of x and |x| rounded to thousandths
ToFixed3(x) == [neg |-> x[1] < 0, digits |-> (2000 * Abs(x[1]) + x[2]) \div (2 * x[2])]

\* Math.sqrt(x).toFixed(3) for x >= 0: the m with (2m - 1)^2 <= 4000000 x <
\* (2m + 1)^2
SqrtToFixed3(x) ==
    [neg |-> FALSE, digits |-> (IsqrtIn(0, 40000, (4000000 * x[1]) \div x[2]) + 1) \div 2]

\* the metrics for at least one point
MetricsOf_randomBias(pts, kFolds, random, mean, variance) ==
    [rmse |-> SqrtToFixed3(RMul(variance, Rat(15, 100))),
     mae |-> SqrtToFixed3(RMul(variance, Rat(144, 10000))),
     r2 |-> ToFixed3(RAdd(Rat(75, 100), RMul(random, Rat(2, 10)))),
     bias |-> ToFixed3(RMul(RAdd(mean, random), Rat(2, 100))),
     sampleSize |-> Len(pts),
     cvFolds |-> kFolds]
MetricsOf(pts, kFolds, random, mean, variance) ==
    [rmse |-> SqrtToFixed3(RMul(variance, Rat(15, 100))),
     \* Math.sqrt(variance) * 0.12 is the square root of variance * 0.12^2
     mae |-> SqrtToFixed3(RMul(variance, Rat(144, 10000))),
     r2 |-> ToFixed3(RAdd(Rat(75, 100), RMul(random, Rat(2, 10)))),
     bias |-> ToFixed3(RMul(mean, Rat(2, 100))),
     sampleSize |-> Len(pts),
     cvFolds |-> kFolds]

\* without points mean is 0 / 0, NaN, and so is everything computed from it;
\* random is what Math.random() returns
calculateMetrics(pts, kFolds, random) ==
    IF pts = <<>>
    THEN [rmse |-> "NaN", mae |-> "NaN",
          r2 |-> ToFixed3(RAdd(Rat(75, 100), RMul(random, Rat(2, 10)))),
          bias |-> "NaN", sampleSize |-> 0, cvFolds |-> kFolds]
    ELSE LET mean == Rat(SumTargets(pts), Len(pts))
         IN  MetricsOf(pts, kFolds, random, mean,
                       RDiv(SumSquares(pts, mean), RInt(Len(pts))))

(***************************************************************************)
(* runAnalysis                                                             *)
(***************************************************************************)
\* the calls recorded in calls: onProgress(percent, message) and the stages
Report(percent) == [fn |-> "onProgress", progress |-> percent]
Stage(name) == [fn |-> name]

\* what runAnalysis does between two sleeps: the stages, then the report
Block_reportFirst(stages, percent) == <<Report(percent)>> \o stages
Block(stages, percent) == stages \o <<Report(percent)>>

AnalysisType(predictors) ==
    IF Len(predictors) > 0 THEN "predictor-based" ELSE "single-variable"

\* f(...array) throws a RangeError when the array has more elements than the
\* engine takes as arguments of one call (some 10^5 in the build)
MaxSpreadArgs == 40
SpreadThrows(array) == Len(array) > MaxSpreadArgs

\* Math.min(...values) and Math.max(...values)
MinVal(continuousGrid) ==
    IF continuousGrid = <<>> THEN Infinity
    ELSE RSetMin({continuousGrid[k].value : k \in DOMAIN continuousGrid})
MaxVal(continuousGrid) ==
    IF continuousGrid = <<>> THEN MinusInfinity
    ELSE RSetMax({continuousGrid[k].value : k \in DOMAIN continuousGrid})

\* the locals after lines 437-450; a local that is undefined is not in the
\* record
Interpolated(l, regression, continuousGrid) ==
    LET withGrid == With(With(With(l, "continuousGrid", continuousGrid),
                              "minVal", MinVal(continuousGrid)),
                         "maxVal", MaxVal(continuousGrid))
    IN  IF l.analysisType = "predictor-based"
        THEN With(withGrid, "featureImportance", regression.featureImportance)
        ELSE withGrid

\* the locals after lines 460-469
CrossValidated(l, pts, cfg) ==
    IF l.analysisType = "single-variable"
    THEN With(l, "accuracyGrid",
              calculateAccuracyMap(pts, l.continuousGrid, cfg.cvFolds, cfg.idwPower))
    ELSE With(With(l, "residualGrid",
                   calculateResiduals(pts, l.continuousGrid, cfg.cvFolds, cfg.idwPower).grid),
              "uncertaintyGrid", calculateUncertainty(pts, l.continuousGrid))

CrossValidationStages(l) ==
    IF l.analysisType = "single-variable"
    THEN <<Stage("calculateAccuracyMap")>>
    ELSE <<Stage("calculateResiduals"), Stage("calculateUncertainty")>>

\* uncertaintyGrid || calculateUncertainty(points, continuousGrid): an array,
\* even an empty one, is truthy
GridWithUncertainty_continuous(l, pts) ==
    IF "uncertaintyGrid" \in DOMAIN l THEN l.uncertaintyGrid ELSE l.continuousGrid
GridWithUncertainty(l, pts) ==
    IF "uncertaintyGrid" \in DOMAIN l THEN l.uncertaintyGrid
    ELSE calculateUncertainty(pts, l.continuousGrid)

RpeStages(l) ==
    IF "uncertaintyGrid" \in DOMAIN l THEN <<Stage("calculateRPE")>>
    ELSE <<Stage("calculateUncertainty"), Stage("calculateRPE")>>

\* f: l[name] in a result, left out when l[name] is undefined
WithDefined(rec, f, l, name) == IF name \in DOMAIN l THEN With(rec, f, l[name]) ELSE rec

\* the returned object, now being new Date()
AnalysisResults(l, now) ==
    LET always == [analysisType |-> l.analysisType,
                   targetVar |-> targetVar,
                   predictors |-> l.predictors,
                   continuous |-> [grid |-> l.continuousGrid, minVal |-> l.minVal,
                                   maxVal |-> l.maxVal],
                   classified |-> l.classifiedGrid,
                   rpe |-> l.rpeResult.grid,
                   rpePolygon |-> l.rpeResult.polygon,
                   metrics |-> l.metrics,
                   timestamp |-> now]
    IN  WithDefined(WithDefined(WithDefined(WithDefined(always,
            "accuracy", l, "accuracyGrid"),
            "residuals", l, "residualGrid"),
            "uncertainty", l, "uncertaintyGrid"),
            "featureImportance", l, "featureImportance")

(***************************************************************************)
(* Specification SpecRun: one call of runAnalysis, a step being what runs  *)
(* between two awaited sleeps.  locals holds the parameter predictors and  *)
(* the locals that are defined; result is Unset until the promise is       *)
(* fulfilled.                                                              *)
(***************************************************************************)
MaxRunPoints == 3
RunSamples ==
    {PredictorPoint(0, 4, 0, 0), PredictorPoint(3, 0, 3, 5), PredictorPoint(0, 0, 3, 0)}
RunPredictors == {<<>>, <<"a">>}
RunResolutions == {2, 4}
RunFolds == {2, 5}
RunRpeMethods == {"convex-hull", "combined"}
Times == {1, 2}

RunInit ==
    /\ pc = "init"
    /\ points \in SeqsOf(RunSamples, 0, MaxRunPoints)
    /\ \E r \in RunResolutions, k \in RunFolds, m \in RunRpeMethods :
          config = [gridResolution |-> r, numClasses |-> 2,
                    classificationMethod |-> "quantile", cvFolds |-> k, idwPower |-> 2,
                    rpeMethod |-> m, rpeBuffer |-> 1,
                    uncertaintyThreshold |-> DefaultThreshold]
    /\ grid = Unset
    /\ result = Unset
    /\ \E preds \in RunPredictors : locals = [predictors |-> preds]
    /\ calls = <<>>
    /\ plotter = Unset

\* lines 427-430
RunCall ==
    /\ pc = "init"
    /\ pc' = "runAnalysis.10"
    /\ locals' = With(locals, "analysisType", AnalysisType(locals.predictors))
    /\ calls' = Block(<<>>, 10)
    /\ UNCHANGED <<points, config, grid, result, plotter>>

\* lines 432-435
RunGrid ==
    /\ pc = "runAnalysis.10"
    /\ pc' = "runAnalysis.25"
    /\ \E g \in {generateGrid(points, config.gridResolution)} :
          locals' = With(locals, "grid", g)
    /\ calls' = calls \o Block(<<Stage("generateGrid")>>, 25)
    /\ UNCHANGED <<points, config, grid, result, plotter>>

\* lines 437-453
RunInterpolation ==
    /\ pc = "runAnalysis.25"
    /\ pc' = "runAnalysis.45"
    /\ \/ /\ locals.analysisType = "predictor-based"
          /\ \E draws \in [1..Len(locals.predictors) -> RandomDraws] :
                \E r \in {performRegression(points, locals.predictors, locals.grid, config,
                                            draws)} :
                   /\ ~SpreadThrows(r.grid)
                   /\ locals' = Interpolated(locals, r, r.grid)
          /\ calls' = calls \o Block(<<Stage("performRegression")>>, 45)
       \/ /\ locals.analysisType = "single-variable"
          /\ \E g \in {performIDW(points, locals.grid, config.idwPower)} :
                /\ ~SpreadThrows(g)
                /\ locals' = Interpolated(locals, Unset, g)
          /\ calls' = calls \o Block(<<Stage("performIDW")>>, 45)
    /\ UNCHANGED <<points, config, grid, result, plotter>>

\* lines 437-449 when Math.min(...values) throws: the promise is rejected.
\* continuousGrid and values have one element for each cell of grid
RunInterpolationThrows ==
    /\ pc = "runAnalysis.25"
    /\ SpreadThrows(locals.grid)
    /\ pc' = "runAnalysis.rejected"
    /\ calls' = calls \o <<Stage(IF locals.analysisType = "predictor-based"
                                THEN "performRegression" ELSE "performIDW")>>
    /\ UNCHANGED <<points, config, grid, result, locals, plotter>>

\* lines 455-458
RunClassify ==
    /\ pc = "runAnalysis.45"
    /\ pc' = "runAnalysis.55"
    /\ \E g \in {classifyGrid(locals.continuousGrid, config.numClasses,
                             config.classificationMethod)} :
          locals' = With(locals, "classifiedGrid", g)
    /\ calls' = calls \o Block(<<Stage("classifyGrid")>>, 55)
    /\ UNCHANGED <<points, config, grid, result, plotter>>

\* lines 460-472
RunCrossValidation ==
    /\ pc = "runAnalysis.55"
    /\ pc' = "runAnalysis.75"
    /\ \E l \in {CrossValidated(locals, points, config)} : locals' = l
    /\ calls' = calls \o Block(CrossValidationStages(locals), 75)
    /\ UNCHANGED <<points, config, grid, result, plotter>>

\* lines 475-485
RunRPE ==
    /\ pc = "runAnalysis.75"
    /\ pc' = "runAnalysis.90"
    /\ \E g \in {GridWithUncertainty(locals, points)} :
          \E r \in {calculateRPE(points, g, config.rpeMethod, config.rpeBuffer,
                                config.uncertaintyThreshold)} :
             locals' = With(With(locals, "gridWithUncertainty", g), "rpeResult", r)
    /\ points' = PointsAfterHull(points)
    /\ calls' = calls \o Block(RpeStages(locals), 90)
    /\ UNCHANGED <<config, grid, result, plotter>>

\* lines 487-509
RunMetrics ==
    /\ pc = "runAnalysis.90"
    /\ pc' = "runAnalysis"
    /\ \E random \in RandomDraws, now \in Times :
          \E l \in {With(locals, "metrics", calculateMetrics(points, config.cvFolds, random))} :
             /\ locals' = l
             /\ result' = AnalysisResults(l, now)
    /\ calls' = calls \o Block(<<Stage("calculateMetrics")>>, 100)
    /\ UNCHANGED <<points, config, grid, plotter>>

RunNext ==
    \/ RunCall \/ RunGrid \/ RunInterpolation \/ RunInterpolationThrows \/ RunClassify
    \/ RunCrossValidation \/ RunRPE \/ RunMetrics

SpecRun == RunInit /\ [][RunNext]_vars

(***************************************************************************)
(* Claims on SpecRun                                                       *)
(***************************************************************************)
Percentages == <<10, 25, 45, 55, 75, 90, 100>>
IsPrefix(a, b) == Len(a) <= Len(b) /\ \A i \in DOMAIN a : a[i] = b[i]

\* the percentages reported so far, in the order of the reports
Reported ==
    LET reports == SelectSeq(calls, LAMBDA c : c.fn = "onProgress")
    IN  [i \in DOMAIN reports |-> reports[i].progress]

\* the report a stage comes after and the report it comes before; the
\* uncertainty estimate belongs to cross-validation in one path and to the
\* RPE stage in the other
StageWindow(fn) ==
    CASE fn = "generateGrid" -> <<10, 25>>
      [] fn \in {"performIDW", "performRegression"} -> <<25, 45>>
      [] fn = "classifyGrid" -> <<45, 55>>
      [] fn \in {"calculateAccuracyMap", "calculateResiduals"} -> <<55, 75>>
      [] fn = "calculateUncertainty" -> <<55, 90>>
      [] fn = "calculateRPE" -> <<75, 90>>
      [] fn = "calculateMetrics" -> <<90, 100>>

ReportedBefore(i, percent) == \E j \in 1..(i - 1) : calls[j] = Report(percent)

\* the six stages are among the functions ran
SixStages(ran) ==
    /\ {"generateGrid", "classifyGrid", "calculateRPE", "calculateMetrics"} \subseteq ran
    /\ {"performIDW", "performRegression"} \cap ran # {}
    /\ {"calculateAccuracyMap", "calculateResiduals"} \cap ran # {}

\* C12: the reports made so far are the first of 10, 25, 45, 55, 75, 90, 100
\* in that order, and a run that returned made all seven; each stage is called
\* after its own report and before the next one; 100 is reported only after
\* all six stages were called; there is a result only once the run returned,
\* and a run whose stage threw has reported no 100 and has no result.
C12_ProgressOrder ==
    /\ IsPrefix(Reported, Percentages)
    /\ \A i \in DOMAIN calls :
          calls[i].fn # "onProgress" =>
              /\ ReportedBefore(i, StageWindow(calls[i].fn)[1])
              /\ ~ReportedBefore(i, StageWindow(calls[i].fn)[2])
    /\ \A i \in DOMAIN calls :
          calls[i] = Report(100) => SixStages({calls[j].fn : j \in 1..(i - 1)})
    /\ pc = "runAnalysis" => (Reported = Percentages /\ result # Unset)
    /\ pc # "runAnalysis" => result = Unset
    /\ pc = "runAnalysis.rejected" => Report(100) \notin Range(calls)

C12_Witness ==
    /\ pc = "runAnalysis"
    /\ calls[Len(calls)] = Report(100)
    /\ Len(calls) = 14
    /\ Len(result.continuous.grid) > 0

\* the fields a result has whichever the path, and those of one path only
CommonFields == {"continuous", "classified", "rpe", "rpePolygon", "metrics"}
SingleVariableFields == {"accuracy"}
PredictorBasedFields == {"residuals", "uncertainty", "featureImportance"}

\* C13: a run is predictor-based exactly when the predictor list is not
\* empty; a returned single-variable result has an accuracy grid and no
\* residuals, uncertainty or featureImportance, a returned predictor-based
\* result has residuals, uncertainty and featureImportance and no accuracy
\* grid; both have the continuous grid with minVal and maxVal, the classified
\* grid, the rpe grid, the rpe polygon and the metrics; and every cell of the
\* grid given to calculateRPE has an uncertainty.
C13_PathByPredictors ==
    /\ "analysisType" \in DOMAIN locals =>
          (locals.analysisType = "predictor-based" <=> locals.predictors # <<>>)
    /\ "gridWithUncertainty" \in DOMAIN locals =>
          \A k \in DOMAIN locals.gridWithUncertainty :
             "uncertainty" \in DOMAIN locals.gridWithUncertainty[k]
    /\ pc = "runAnalysis" =>
          /\ result.analysisType = locals.analysisType
          /\ CommonFields \subseteq DOMAIN result
          /\ {"grid", "minVal", "maxVal"} \subseteq DOMAIN result.continuous
          /\ result.rpe = calculateRPE(points, locals.gridWithUncertainty, config.rpeMethod,
                                       config.rpeBuffer, config.uncertaintyThreshold).grid
          /\ IF result.analysisType = "single-variable"
             THEN /\ SingleVariableFields \subseteq DOMAIN result
                  /\ PredictorBasedFields \cap DOMAIN result = {}
             ELSE /\ PredictorBasedFields \subseteq DOMAIN result
                  /\ SingleVariableFields \cap DOMAIN result = {}

C13_Witness ==
    /\ pc = "runAnalysis"
    /\ result.analysisType = "predictor-based"
    /\ locals.predictors = <<"a">>
    /\ Len(result.uncertainty) > 0
    /\ \E k \in DOMAIN result.rpe : result.rpe[k].reliable

\* cell has every field of given, with the value it has in given
Extends(cell, given) ==
    \A f \in DOMAIN given : f \in DOMAIN cell /\ cell[f] = given[f]

\* produced has one cell for each cell of received, which extends it by the
\* fields added and by nothing else
Annotates(produced, received, added) ==
    /\ Len(produced) = Len(received)
    /\ \A k \in DOMAIN received :
          /\ Extends(produced[k], received[k])
          /\ DOMAIN produced[k] = DOMAIN received[k] \cup added

\* the grids of a result other than the continuous one
ProducedGrids(res) ==
    {res[f] : f \in {"classified", "accuracy", "residuals", "uncertainty", "rpe"} \cap DOMAIN res}

\* C14: every grid of a returned result has as many cells as the continuous
\* grid, with the lat, lng and value the continuous grid has at that index;
\* each stage's grid has the cells the stage received, with their fields
\* unchanged, and the stage's own fields added.
C14_GridsAligned ==
    pc = "runAnalysis" =>
        LET continuous == result.continuous.grid IN
        /\ \A g \in ProducedGrids(result) :
              /\ Len(g) = Len(continuous)
              /\ \A k \in DOMAIN g :
                    /\ g[k].lat = continuous[k].lat
                    /\ g[k].lng = continuous[k].lng
                    /\ g[k].value = continuous[k].value
        /\ Annotates(continuous, locals.grid, {"value"})
        /\ Annotates(result.classified, continuous, {"class"})
        /\ Annotates(locals.gridWithUncertainty, continuous, {"uncertainty"})
        /\ Annotates(result.rpe, locals.gridWithUncertainty, {"reliable"})
        /\ "accuracy" \in DOMAIN result =>
              Annotates(result.accuracy, continuous, {"residual", "accuracy"})
        /\ "residuals" \in DOMAIN result =>
              Annotates(result.residuals, continuous, {"residual"})
        /\ "uncertainty" \in DOMAIN result =>
              Annotates(result.uncertainty, continuous, {"uncertainty"})

C14_Witness ==
    /\ pc = "runAnalysis"
    /\ "accuracy" \in DOMAIN result
    /\ Len(result.continuous.grid) > 0
    /\ \E k \in DOMAIN result.accuracy :
          /\ result.accuracy[k].residual # RInt(0)
          /\ result.accuracy[k].value # result.accuracy[k].accuracy

\* C15: no step of a run changes the caller's points: the array keeps its
\* length and order and every point its lat, lng and properties.
C15_PointsUntouched == [][points' = points]_vars

\* a run has returned for three points that the hull's sort puts in another
\* order
C15_Witness ==
    /\ pc = "runAnalysis"
    /\ Len(points) = 3
    /\ ~TooFewForHull(points)
    /\ SortPoints(points) # points
    /\ result.rpePolygon # points

RunAgain ==
    /\ pc = "runAnalysis"
    /\ grid = Unset
    /\ pc' = "init"
    /\ grid' = result
    /\ result' = Unset
    /\ locals' = [predictors |-> locals.predictors]
    /\ calls' = <<>>
    /\ UNCHANGED <<points, config, plotter>>

RunTwiceNext == RunNext \/ RunAgain

SpecRunTwice == RunInit /\ [][RunTwiceNext]_vars

SecondReturned == pc = "runAnalysis" /\ grid # Unset

\* C29: of two single-variable runs on the same points and config the second
\* returns the continuous, classified, accuracy and rpe grids, the rpe
\* polygon and the rmse, mae, bias, sampleSize and cvFolds the first returned.
C29_ReproducibleButR2 ==
    (SecondReturned /\ result.analysisType = "single-variable") =>
        /\ \A f \in {"continuous", "classified", "accuracy", "rpe", "rpePolygon"} :
              result[f] = grid[f]
        /\ \A f \in {"rmse", "mae", "bias", "sampleSize", "cvFolds"} :
              result.metrics[f] = grid.metrics[f]

\* the two runs differ in r2 and in the timestamp
C29_Witness ==
    /\ SecondReturned
    /\ result.analysisType = "single-variable"
    /\ Len(result.continuous.grid) > 0
    /\ Len(points) = 3
    /\ result.metrics.r2 # grid.metrics.r2
    /\ result.timestamp # grid.timestamp

(***************************************************************************)
(* The undo history of the plotter pages (src/src/pages/ManualPlotter.tsx; *)
(* the Excel plotter keeps the same saveState, undo and redo over its      *)
(* plotted areas).  A handler runs on the state of the render it was       *)
(* created in, and the updates it queues are applied together before the   *)
(* next event is handled: one action per event.  A polygon is its id and   *)
(* whether a row of the workbook has been joined to it; the coordinates    *)
(* being entered are counted, their values reach no part of the history.   *)
(***************************************************************************)
\* prev.slice(-n)
SliceLast(s, n) == IF Len(s) <= n THEN s ELSE SubSeq(s, Len(s) - n + 1, Len(s))

\* prev.slice(0, -1)
SliceButLast(s) == SubSeq(s, 1, Len(s) - 1)

\* lines 241-244, keeping the last twenty snapshots before the new one
saveState_keepTwenty(p) ==
    [p EXCEPT !.undoStack = Append(SliceLast(@, 20), p.polygons),
              !.redoStack = <<>>]

\* lines 241-244
saveState(p) ==
    [p EXCEPT !.undoStack = Append(SliceLast(@, 19), p.polygons),
              !.redoStack = <<>>]

\* lines 303-312: the polygon plotPolygon makes
NewPolygon(id) == [id |-> id, excelData |-> FALSE]

\* lines 294-319
plotPolygon(p) ==
    IF p.currentCoords < 3
    THEN p
    ELSE [saveState(p) EXCEPT !.polygons = Append(p.polygons, NewPolygon(p.polygonId)),
                              !.currentCoords = 0,
                              !.polygonId = @ + 1]

\* lines 321-326
deletePolygon(p, id) ==
    [saveState(p) EXCEPT !.polygons = SelectSeq(p.polygons, LAMBDA q : q.id # id)]

\* lines 328-334
clearAll(p) ==
    [saveState(p) EXCEPT !.polygons = <<>>, !.currentCoords = 0]

\* lines 336-345
undo(p) ==
    IF Len(p.undoStack) = 0
    THEN p
    ELSE [p EXCEPT !.redoStack = Append(@, p.polygons),
                   !.undoStack = SliceButLast(@),
                   !.polygons = p.undoStack[Len(p.undoStack)]]

\* lines 347-356
redo(p) ==
    IF Len(p.redoStack) = 0
    THEN p
    ELSE [p EXCEPT !.undoStack = Append(@, p.polygons),
                   !.redoStack = SliceButLast(@),
                   !.polygons = p.redoStack[Len(p.redoStack)]]

\* lines 382-400: idColumn is whether an ID column is selected, rowIds the
\* ids found in that column of the rows of the workbook
joinExcelData(p, idColumn, rowIds) ==
    IF ~idColumn \/ rowIds = {}
    THEN p
    ELSE [saveState(p) EXCEPT !.polygons =
              [i \in DOMAIN p.polygons |->
                  IF p.polygons[i].id \in rowIds
                  THEN [p.polygons[i] EXCEPT !.excelData = TRUE]
                  ELSE p.polygons[i]]]

(***************************************************************************)
(* Specification SpecPlotter: the events of the manual plotter page.       *)
(***************************************************************************)
MaxPolygonId == 1
MaxCoords == 3

\* lines 198-211
PlotterInit ==
    /\ pc = "init"
    /\ points = Unset
    /\ config = Unset
    /\ grid = Unset
    /\ result = Unset
    /\ NoFrame
    /\ plotter = [polygons |-> <<>>, currentCoords |-> 0, polygonId |-> 1,
                  undoStack |-> <<>>, redoStack |-> <<>>]

Event(name, after) ==
    /\ pc' = name
    /\ plotter' = after
    /\ UNCHANGED <<points, config, grid, result, locals, calls>>

\* lines 246-248
HandleMapClick ==
    /\ plotter.currentCoords < MaxCoords
    /\ Event("handleMapClick", [plotter EXCEPT !.currentCoords = @ + 1])

PlotPolygon ==
    /\ plotter.polygonId <= MaxPolygonId
    /\ Event("plotPolygon", plotPolygon(plotter))

\* line 825: the button of a polygon of the list
DeletePolygon ==
    \E i \in DOMAIN plotter.polygons :
        Event("deletePolygon", deletePolygon(plotter, plotter.polygons[i].id))

ClearAll == Event("clearAll", clearAll(plotter))

Undo == Event("undo", undo(plotter))

Redo == Event("redo", redo(plotter))

JoinExcelData ==
    \E idColumn \in BOOLEAN, rowIds \in SUBSET (1..MaxPolygonId + 1) :
        Event("joinExcelData", joinExcelData(plotter, idColumn, rowIds))

PlotterNext ==
    \/ HandleMapClick
    \/ PlotPolygon
    \/ DeletePolygon
    \/ ClearAll
    \/ Undo
    \/ Redo
    \/ JoinExcelData

SpecPlotter == PlotterInit /\ [][PlotterNext]_vars

\* C30: after any sequence of plot, delete, clear, join, undo and redo the
\* undo stack holds at most 20 snapshots.
C30_UndoStackBounded == plotter # Unset => Len(plotter.undoStack) <= 20

\* the stack is full after a redo, and its oldest snapshot is no longer the
\* empty list the page started with: earlier snapshots have been dropped
C30_Witness ==
    /\ pc = "redo"
    /\ Len(plotter.undoStack) = 20
    /\ plotter.undoStack[1] # <<>>

\* C11: when all sample points are collinear or identical, calculateRPE with
\* method convex-hull completes and marks every cell of the grid not reliable,
\* for every buffer.
C11_DegenerateUnreliable ==
    (pc = "calculateRPE" /\ config.rpeMethod = "convex-hull" /\ AllCollinear(points)) =>
        \A c \in DOMAIN result :
            /\ Len(result[c].grid) = Len(grid)
            /\ \A k \in DOMAIN result[c].grid : result[c].grid[k].reliable = FALSE

=============================================================================
